---------------------------- MODULE Spec2Model ----------------------------
(***************************************************************************)
(* Model of the plan pipeline of scripts/fetch_plans.py: the value         *)
(* coercers, the CSV and JSON row normalizers, the plan set builders       *)
(* (parse_csv_to_plans, parse_json_to_plans), the fingerprint engine, the  *)
(* preference scorer and the deduplicator (deduplicate_plans).             *)
(*                                                                         *)
(* Representation.                                                         *)
(*  - A Python str is a sequence of one-character strings.  The letters    *)
(*    outside ASCII are written as two-character names: "n~" is n-tilde,   *)
(*    "a'" "e'" "i'" "o'" "u'" are the acute vowels ("N~", "A'", ... their *)
(*    capitals) and "c/" is the cent sign.                                 *)
(*  - A Python value is a record [t |-> tag, v |-> payload] with tag one   *)
(*    of "none", "str", "int", "float", "nan", "inf", "ninf", "bool",      *)
(*    "dict", "list"; "raise" is an exception leaving a call, v its class. *)
(*  - A finite float is held exactly, as an integer number of 1/Unit       *)
(*    (decimal fixed point); nan and the two infinities are their own      *)
(*    tags.  Digits of a numeral beyond 1/Unit are dropped, and the        *)
(*    rounding error of binary floating point is not modelled.             *)
(*  - A dict is a function from its keys; an insertion-ordered dict whose  *)
(*    order matters (fingerprint_map) is a sequence of [key, value]        *)
(*    records.                                                             *)
(***************************************************************************)
EXTENDS Integers, Sequences, FiniteSets, TLC

VARIABLES
    data_type,        \* "csv" | "json": main's data_type; "none": a function called alone
    rows,             \* the rows the builder's loop runs over, set by its prologue
    pc,               \* "open" | "parse" | "main" | "dedupe" | "done" | "exit" | "raised";
                      \* "call" | "retry" | "returned" for a function called outside main
    row_count,        \* parse_csv_to_plans: rows read so far
    error_count,      \* parse_csv_to_plans: rows that ended in the except clause
    plans,            \* the builder's output list / the list handed to deduplicate_plans
    k,                \* deduplicate_plans: number of plans already folded into the map
    fingerprint_map,  \* deduplicate_plans: the insertion-ordered dict
    unique_plans,     \* deduplicate_plans: the returned list
    call,             \* the call in progress: [fn |-> its name, arg |-> its argument]; for a
                      \* builder, arg is the document as the reader or json.loads gives it
    result,           \* what a function called alone returned or raised
    attempt,          \* retry_with_backoff: the loop variable; MAX_RETRIES when the loop has ended
    last_exception,   \* retry_with_backoff: the request exception caught last
    calls,            \* retry_with_backoff: what each call of func made so far returned or raised
    delays            \* retry_with_backoff: the seconds (in 1/Unit) of each time.sleep made so far

vars == <<data_type, rows, pc, row_count, error_count, plans, k, fingerprint_map, unique_plans,
          call, result, attempt, last_exception, calls, delays>>

retry_vars == <<attempt, last_exception, calls, delays>>

----------------------------------------------------------------------------
(* Characters and str methods *)

LowerLetters == <<"a","b","c","d","e","f","g","h","i","j","k","l","m","n","o","p","q","r","s","t","u","v","w","x","y","z","n~","a'","e'","i'","o'","u'">>
UpperLetters == <<"A","B","C","D","E","F","G","H","I","J","K","L","M","N","O","P","Q","R","S","T","U","V","W","X","Y","Z","N~","A'","E'","I'","O'","U'">>
Digits == <<"0","1","2","3","4","5","6","7","8","9">>

Range(s) == {s[i] : i \in DOMAIN s}

IndexOf(s, c) == CHOOSE i \in DOMAIN s : s[i] = c

\* the upper-case letter of each lower-case letter, and the reverse
ToUpper == [c \in Range(LowerLetters) |-> UpperLetters[IndexOf(LowerLetters, c)]]

ToLower == [c \in Range(UpperLetters) |-> LowerLetters[IndexOf(UpperLetters, c)]]

AlnumChars == Range(LowerLetters) \cup Range(UpperLetters) \cup Range(Digits)

UpperChar(c) == IF c \in DOMAIN ToUpper THEN ToUpper[c] ELSE c

LowerChar(c) == IF c \in DOMAIN ToLower THEN ToLower[c] ELSE c

Upper(s) == [i \in 1..Len(s) |-> UpperChar(s[i])]

Lower(s) == [i \in 1..Len(s) |-> LowerChar(s[i])]

IsSpace(c) == c \in {" ", "\t"}

IsAlnum(c) == c \in AlnumChars

SetMin(S) == CHOOSE x \in S : \A y \in S : x <= y

SetMax(S) == CHOOSE x \in S : \A y \in S : x >= y

\* the part of s from the first to the last position of keep
Span(s, keep) == IF keep = {} THEN <<>> ELSE SubSeq(s, SetMin(keep), SetMax(keep))

\* str.strip()
Strip(s) == Span(s, {i \in DOMAIN s : ~IsSpace(s[i])})

\* str.replace(c, "") for every c of chars
RemoveChars(s, chars) == SelectSeq(s, LAMBDA c : c \notin chars)

\* str.startswith(p)
StartsWith(s, p) == Len(p) <= Len(s) /\ SubSeq(s, 1, Len(p)) = p

\* sub in s
Contains(s, sub) == \E i \in 0..(Len(s) - Len(sub)) : SubSeq(s, i + 1, i + Len(sub)) = sub

\* the part of s before the first position of stops
Before(s, stops) == IF stops = {} THEN s ELSE SubSeq(s, 1, SetMin(stops) - 1)

\* s.split()[0] of a non-empty stripped s
FirstToken(s) == Before(s, {i \in DOMAIN s : IsSpace(s[i])})

----------------------------------------------------------------------------
(* Python values *)

Unit == 10000

PyNone == [t |-> "none", v |-> 0]
PyStr(s) == [t |-> "str", v |-> s]
PyInt(n) == [t |-> "int", v |-> n]
PyFloat(n) == [t |-> "float", v |-> n]
PyNaN == [t |-> "nan", v |-> 0]
PyInf == [t |-> "inf", v |-> 0]
PyNegInf == [t |-> "ninf", v |-> 0]
PyBool(b) == [t |-> "bool", v |-> b]

\* an operation that raised: the exception's class
Raise(e) == [t |-> "raise", v |-> e]

IsFloat(x) == x.t \in {"float", "nan", "inf", "ninf"}

\* bool(x)
Truthy(x) ==
    CASE x.t = "none" -> FALSE
      [] x.t = "str" -> x.v # <<>>
      [] x.t \in {"int", "float"} -> x.v # 0
      [] x.t = "bool" -> x.v
      [] OTHER -> TRUE

\* x or y
Or(x, y) == IF Truthy(x) THEN x ELSE y

\* x > 0 and x <= 0 for a number x (every comparison with nan is False)
GtZero(x) == (x.t \in {"int", "float"} /\ x.v > 0) \/ x.t = "inf" \/ (x.t = "bool" /\ x.v)

LeZero(x) == (x.t \in {"int", "float"} /\ x.v <= 0) \/ x.t = "ninf" \/ (x.t = "bool" /\ ~x.v)

\* float(x) of an int, bool or float x
ToFloat(x) ==
    CASE x.t = "int" -> PyFloat(x.v * Unit)
      [] x.t = "bool" -> PyFloat(IF x.v THEN Unit ELSE 0)
      [] OTHER -> x

RECURSIVE DigitsValue(_)
DigitsValue(s) ==
    IF s = <<>> THEN 0
    ELSE 10 * DigitsValue(SubSeq(s, 1, Len(s) - 1)) + (IndexOf(Digits, s[Len(s)]) - 1)

RECURSIVE FractionValue(_, _)
\* the digits after the point, in 1/Unit; place is the weight of the first digit
FractionValue(s, place) ==
    IF s = <<>> \/ place = 0 THEN 0
    ELSE (IndexOf(Digits, s[1]) - 1) * place + FractionValue(Tail(s), place \div 10)

\* the value, in 1/Unit, of the decimal numeral body whose point is at position dot
DecimalValue(body, dot) ==
    DigitsValue(SubSeq(body, 1, dot - 1)) * Unit
        + FractionValue(SubSeq(body, dot + 1, Len(body)), Unit \div 10)

\* the value of an unsigned numeral with the set dots of the positions of its points
Magnitude(body, dots) ==
    IF dots = {} THEN DigitsValue(body) * Unit ELSE DecimalValue(body, SetMin(dots))

\* digits with at most one point and at least one digit
IsNumeral(body, dots) ==
    /\ Range(body) \subseteq Range(Digits) \cup {"."}
    /\ Cardinality(dots) <= 1
    /\ Len(body) - Cardinality(dots) >= 1

FloatOfNumeral(neg, body, dots) ==
    IF IsNumeral(body, dots)
    THEN PyFloat(IF neg THEN -Magnitude(body, dots) ELSE Magnitude(body, dots))
    ELSE Raise("ValueError")

\* low is body in lower case
FloatOfBody(neg, body, low) ==
    CASE low \in {<<"i","n","f">>, <<"i","n","f","i","n","i","t","y">>} -> IF neg THEN PyNegInf ELSE PyInf
      [] low = <<"n","a","n">> -> PyNaN
      [] OTHER -> FloatOfNumeral(neg, body, {i \in DOMAIN body : body[i] = "."})

FloatOfStripped(s) ==
    IF s # <<>> /\ s[1] \in {"+", "-"}
    THEN FloatOfBody(s[1] = "-", Tail(s), Lower(Tail(s)))
    ELSE FloatOfBody(FALSE, s, Lower(s))

\* float(s) of a str s: [sign] digits [. digits] | [sign] . digits | [sign] inf | infinity | nan,
\* surrounded by optional whitespace; anything else is a ValueError.
\* (Exponents and digit-group underscores are outside the input alphabet.)
FloatOfStr(s) == FloatOfStripped(Strip(s))

\* int(x) of a float x: truncation toward zero
IntOfFloat(x) ==
    CASE x.t = "float" -> PyInt(IF x.v >= 0 THEN x.v \div Unit ELSE -((-x.v) \div Unit))
      [] x.t = "nan" -> Raise("ValueError")
      [] x.t \in {"inf", "ninf"} -> Raise("OverflowError")
      [] OTHER -> x

----------------------------------------------------------------------------
(* Value coercers *)

RECURSIVE NatToStr(_)
NatToStr(n) == IF n < 10 THEN <<Digits[n + 1]>> ELSE NatToStr(n \div 10) \o <<Digits[(n % 10) + 1]>>

IntToStr(n) == IF n < 0 THEN <<"-">> \o NatToStr(-n) ELSE NatToStr(n)

\* str(x) of a value of the input alphabet: str, int, bool (floats do not occur in text fields)
StrOf(x) ==
    CASE x.t = "str" -> x.v
      [] x.t = "int" -> IntToStr(x.v)
      [] x.t = "bool" -> IF x.v THEN <<"T","r","u","e">> ELSE <<"F","a","l","s","e">>
      [] x.t = "none" -> <<"N","o","n","e">>

\* a conversion that also takes exactly 1.0 for dollars: "if num <= 1.0"
PriceOfNumberUpToOne(num) ==
    CASE num.t = "raise" -> PyNone
      [] num.t = "float" /\ num.v <= Unit -> PyFloat(num.v * 100)
      [] OTHER -> num

\* "if num < 1.0: return num * 100", and None for the ValueError of float()
PriceOfNumber(num) ==
    CASE num.t = "raise" -> PyNone
      [] num.t = "float" /\ num.v < Unit -> PyFloat(num.v * 100)
      [] OTHER -> num

PriceOfCleaned(cleaned) == IF cleaned = <<>> THEN PyNone ELSE PriceOfNumber(FloatOfStr(cleaned))

parse_price(value) ==
    CASE value.t = "none" -> PyNone
      [] value.t = "str" -> PriceOfCleaned(RemoveChars(Strip(value.v), {"$", ",", "%"}))
      [] OTHER -> PriceOfNumber(ToFloat(value))

\* None for the ValueError of float()
NoneIfRaised(num) == IF num.t = "raise" THEN PyNone ELSE num

FloatOfCleaned(cleaned) == IF cleaned = <<>> THEN PyNone ELSE NoneIfRaised(FloatOfStr(cleaned))

parse_float(value) ==
    CASE value.t = "none" -> PyNone
      [] value.t = "str" -> FloatOfCleaned(RemoveChars(Strip(value.v), {"$", "c/", ",", "%"}))
      [] OTHER -> ToFloat(value)

\* int(num): parse_int catches ValueError and lets OverflowError through
IntOfNumber(num) ==
    CASE num.t = "raise" -> PyNone
      [] num.t = "nan" -> PyNone
      [] OTHER -> IntOfFloat(num)

\* cleaned is str(value).strip().replace(",", ""): split()[0] of a text of only whitespace
\* raises IndexError, which parse_int lets through
IntOfCleaned(cleaned) ==
    CASE cleaned = <<>> -> PyNone
      [] Strip(cleaned) = <<>> -> Raise("IndexError")
      [] OTHER -> IntOfNumber(FloatOfStr(FirstToken(Strip(cleaned))))

\* returns a value, Raise("OverflowError") or Raise("IndexError")
parse_int(value) ==
    CASE value.t = "none" -> PyNone
      [] value.t \in {"int", "bool"} -> value
      [] value.t = "str" -> IntOfCleaned(RemoveChars(Strip(value.v), {","}))
      [] OTHER -> IntOfNumber(value)

sanitize_string(value) == IF value.t = "none" THEN <<>> ELSE Strip(StrOf(value))

\* url is str(value).strip()
ResolveUrl(url) ==
    CASE url = <<>> -> url
      [] StartsWith(url, <<"h","t","t","p",":","/","/">>) \/ StartsWith(url, <<"h","t","t","p","s",":","/","/">>) -> url
      [] StartsWith(url, <<"/","/">>) -> <<"h","t","t","p","s",":">> \o url
      [] StartsWith(url, <<"/">>) -> <<"h","t","t","p","s",":","/","/","w","w","w",".","p","o","w","e","r","t","o","c","h","o","o","s","e",".","o","r","g">> \o url
      [] OTHER -> url

sanitize_url(value) == IF value.t = "none" THEN <<>> ELSE ResolveUrl(Strip(StrOf(value)))

\* the dict literal of normalize_tdu_name, in its insertion order
tdu_mapping == <<
    [key |-> <<"C","E","N","T","E","R","P","O","I","N","T">>, code |-> <<"C","E","N","T","E","R","P","O","I","N","T">>],
    [key |-> <<"C","E","N","T","E","R","P","O","I","N","T"," ","E","N","E","R","G","Y">>, code |-> <<"C","E","N","T","E","R","P","O","I","N","T">>],
    [key |-> <<"C","E","N","T","E","R","P","O","I","N","T"," ","E","N","E","R","G","Y"," ","H","O","U","S","T","O","N">>, code |-> <<"C","E","N","T","E","R","P","O","I","N","T">>],
    [key |-> <<"C","E","N","T","E","R","P","O","I","N","T"," ","E","N","E","R","G","Y"," ","H","O","U","S","T","O","N"," ","E","L","E","C","T","R","I","C">>, code |-> <<"C","E","N","T","E","R","P","O","I","N","T">>],
    [key |-> <<"C","E","N","T","E","R","P","O","I","N","T"," ","E","N","E","R","G","Y"," ","H","O","U","S","T","O","N"," ","E","L","E","C","T","R","I","C"," ","L","L","C">>, code |-> <<"C","E","N","T","E","R","P","O","I","N","T">>],
    [key |-> <<"O","N","C","O","R">>, code |-> <<"O","N","C","O","R">>],
    [key |-> <<"O","N","C","O","R"," ","E","L","E","C","T","R","I","C">>, code |-> <<"O","N","C","O","R">>],
    [key |-> <<"O","N","C","O","R"," ","E","L","E","C","T","R","I","C"," ","D","E","L","I","V","E","R","Y">>, code |-> <<"O","N","C","O","R">>],
    [key |-> <<"O","N","C","O","R"," ","E","L","E","C","T","R","I","C"," ","D","E","L","I","V","E","R","Y"," ","C","O","M","P","A","N","Y">>, code |-> <<"O","N","C","O","R">>],
    [key |-> <<"A","E","P"," ","T","E","X","A","S"," ","C","E","N","T","R","A","L">>, code |-> <<"A","E","P","_","C","E","N","T","R","A","L">>],
    [key |-> <<"A","E","P"," ","T","E","X","A","S"," ","C","E","N","T","R","A","L"," ","C","O","M","P","A","N","Y">>, code |-> <<"A","E","P","_","C","E","N","T","R","A","L">>],
    [key |-> <<"A","E","P"," ","C","E","N","T","R","A","L">>, code |-> <<"A","E","P","_","C","E","N","T","R","A","L">>],
    [key |-> <<"A","E","P"," ","T","E","X","A","S"," ","N","O","R","T","H">>, code |-> <<"A","E","P","_","N","O","R","T","H">>],
    [key |-> <<"A","E","P"," ","T","E","X","A","S"," ","N","O","R","T","H"," ","C","O","M","P","A","N","Y">>, code |-> <<"A","E","P","_","N","O","R","T","H">>],
    [key |-> <<"A","E","P"," ","N","O","R","T","H">>, code |-> <<"A","E","P","_","N","O","R","T","H">>],
    [key |-> <<"T","E","X","A","S","-","N","E","W"," ","M","E","X","I","C","O"," ","P","O","W","E","R">>, code |-> <<"T","N","M","P">>],
    [key |-> <<"T","E","X","A","S","-","N","E","W"," ","M","E","X","I","C","O"," ","P","O","W","E","R"," ","C","O","M","P","A","N","Y">>, code |-> <<"T","N","M","P">>],
    [key |-> <<"T","N","M","P">>, code |-> <<"T","N","M","P">>],
    [key |-> <<"L","U","B","B","O","C","K"," ","P","O","W","E","R">>, code |-> <<"L","P","L">>],
    [key |-> <<"L","U","B","B","O","C","K"," ","P","O","W","E","R"," ","&"," ","L","I","G","H","T">>, code |-> <<"L","P","L">>],
    [key |-> <<"L","P","L">>, code |-> <<"L","P","L">>] >>

\* the code of the first entry, in table order, among the entries at the positions hits
FirstCode(hits) == tdu_mapping[SetMin(hits)].code

\* a partial match in one direction only: "if key in tdu_upper"
MatchTduKeyInName(tdu_upper) ==
    CASE \E i \in DOMAIN tdu_mapping : tdu_mapping[i].key = tdu_upper ->
            FirstCode({i \in DOMAIN tdu_mapping : tdu_mapping[i].key = tdu_upper})
      [] \E i \in DOMAIN tdu_mapping : Contains(tdu_upper, tdu_mapping[i].key) ->
            FirstCode({i \in DOMAIN tdu_mapping : Contains(tdu_upper, tdu_mapping[i].key)})
      [] OTHER -> tdu_upper

\* "Try exact match first", then "Try partial match" in the order of the dict
MatchTdu(tdu_upper) ==
    CASE \E i \in DOMAIN tdu_mapping : tdu_mapping[i].key = tdu_upper ->
            FirstCode({i \in DOMAIN tdu_mapping : tdu_mapping[i].key = tdu_upper})
      [] \E i \in DOMAIN tdu_mapping : \/ Contains(tdu_upper, tdu_mapping[i].key)
                                        \/ Contains(tdu_mapping[i].key, tdu_upper) ->
            FirstCode({i \in DOMAIN tdu_mapping : \/ Contains(tdu_upper, tdu_mapping[i].key)
                                                  \/ Contains(tdu_mapping[i].key, tdu_upper)})
      [] OTHER -> tdu_upper

normalize_tdu_name(tdu_raw) ==
    IF tdu_raw = <<>> THEN <<"U","N","K","N","O","W","N">> ELSE MatchTdu(Strip(Upper(tdu_raw)))

----------------------------------------------------------------------------
(* Field resolver and CSV row normalizer (the body of parse_csv_to_plans' loop) *)

\* dict.get(key, default)
DictGet(d, key, default) == IF key \in DOMAIN d THEN d[key] ELSE default

\* names that put the plain key of every alias before the bracketed ones
KeyNamesPlainFirst(keys) ==
    [j \in 1..(2 * Len(keys)) |->
        IF j <= Len(keys) THEN keys[j] ELSE "[" \o keys[j - Len(keys)] \o "]"]

\* the names get_val tries, in order: each key, then the key in brackets
KeyNames(keys) ==
    [j \in 1..(2 * Len(keys)) |->
        IF j % 2 = 1 THEN keys[(j + 1) \div 2] ELSE "[" \o keys[j \div 2] \o "]"]

FirstHit(row, names, hits) == IF hits = {} THEN <<>> ELSE row[names[SetMin(hits)]]

\* the first non-empty value among the columns names
Lookup(row, names) ==
    FirstHit(row, names, {j \in DOMAIN names : DictGet(row, names[j], <<>>) # <<>>})

\* get_val(row, *keys): row maps a column name to its text; a short row lacks the key
get_val(row, keys) == Lookup(row, KeyNames(keys))

FeeLabel == <<"C","a","n","c","e","l","l","a","t","i","o","n"," ","F","e","e",":">>

\* \s* from position i
SkipSpaces(text, i) == SetMin({j \in i..(Len(text) + 1) : j = Len(text) + 1 \/ ~IsSpace(text[j])})

\* \$? from position i
SkipDollar(text, i) == IF i <= Len(text) /\ text[i] = "$" THEN i + 1 ELSE i

\* [\d\.] at position j
IsFeeChar(text, j) == j <= Len(text) /\ text[j] \in Range(Digits) \cup {"."}

\* where group 1 starts when the label is at position p
FeeStart(text, p) == SkipDollar(text, SkipSpaces(text, p + Len(FeeLabel)))

\* ([\d\.]+) from position i
FeeRun(text, i) == SubSeq(text, i, SetMin({j \in i..(Len(text) + 1) : ~IsFeeChar(text, j)}) - 1)

\* the positions where the pattern matches
FeeMatches(text) ==
    {p \in 1..Len(text) : /\ p + Len(FeeLabel) - 1 <= Len(text)
                          /\ SubSeq(text, p, p + Len(FeeLabel) - 1) = FeeLabel
                          /\ IsFeeChar(text, FeeStart(text, p))}

FirstFee(text, matches) == IF matches = {} THEN <<>> ELSE FeeRun(text, FeeStart(text, SetMin(matches)))

\* re.search(r"Cancellation Fee:\s*\$?([\d\.]+)", text): group(1) of the first match, or <<>>
CancelFeeInDetails(text) == FirstFee(text, FeeMatches(text))

\* text or default
OrText(text, default) == IF text = <<>> THEN default ELSE text

FlagValues == {<<"T","R","U","E">>, <<"Y","E","S">>, <<"1">>}

\* the dict built at lines 293-377, before the validation gate
CsvPlan(row) ==
    [plan_id |-> PyStr(sanitize_string(PyStr(get_val(row, <<"idKey", "ID Plan", "Plan ID", "plan_id">>)))),
     rep_name |-> PyStr(sanitize_string(PyStr(get_val(row, <<"RepCompany", "REP Name", "rep_name">>)))),
     plan_name |-> PyStr(sanitize_string(PyStr(get_val(row, <<"Product", "Plan Name", "plan_name">>)))),
     tdu_area |-> PyStr(normalize_tdu_name(
                      get_val(row, <<"TduCompanyName", "TduCompany", "TDU", "TDU Area", "tdu_area">>))),
     price_kwh_500 |-> parse_price(PyStr(get_val(row,
                      <<"kwh500", "Price/kWh 500", "Price/kWh: 500 kWh", "Price500", "price_kwh_500">>))),
     price_kwh_1000 |-> parse_price(PyStr(get_val(row,
                      <<"kwh1000", "Price/kWh 1000", "Price/kWh: 1000 kWh", "Price1000", "price_kwh_1000">>))),
     price_kwh_2000 |-> parse_price(PyStr(get_val(row,
                      <<"kwh2000", "Price/kWh 2000", "Price/kWh: 2000 kWh", "Price2000", "price_kwh_2000">>))),
     term_months |-> parse_int(PyStr(get_val(row, <<"TermValue", "Term Value", "Term", "term_months">>))),
     rate_type |-> PyStr(Upper(sanitize_string(PyStr(
                      OrText(get_val(row, <<"RateType", "Rate Type", "rate_type">>), <<"F","I","X","E","D">>))))),
     renewable_pct |-> parse_int(PyStr(
                      OrText(get_val(row, <<"Renewable", "Renewable Perc", "Renewable Content", "renewable_pct">>),
                             <<"0">>))),
     is_prepaid |-> PyBool(Upper(get_val(row, <<"PrePaid", "Prepaid", "is_prepaid">>)) \in FlagValues),
     is_tou |-> PyBool(Upper(get_val(row, <<"TimeOfUse", "Time Of Use", "Time of Use", "is_tou">>))
                          \in FlagValues),
     \* cancel_fee_raw: the fee column, else the fee quoted in "Pricing Details", else "0"
     early_termination_fee |-> parse_float(PyStr(
                      OrText(OrText(get_val(row, <<"CancelFee", "Cancellation Fee", "ETF", "early_termination_fee">>),
                                    CancelFeeInDetails(get_val(row, <<"Pricing Details">>))),
                             <<"0">>))),
     base_charge_monthly |-> parse_float(PyStr(OrText(get_val(row, <<"base_charge_monthly">>), <<"0">>))),
     efl_url |-> PyStr(sanitize_url(PyStr(get_val(row,
                      <<"FactsURL", "Fact Sheet", "Electricity Facts Label (EFL) URL", "EFL URL", "efl_url">>)))),
     enrollment_url |-> PyStr(sanitize_url(PyStr(get_val(row,
                      <<"EnrollURL", "Ordering Info", "Enroll URL", "Enrollment URL", "enrollment_url">>)))),
     terms_url |-> PyStr(sanitize_url(PyStr(get_val(row,
                      <<"TermsURL", "Terms of Service", "Terms of Service (TOS) URL", "TOS URL", "terms_url">>)))),
     special_terms |-> PyStr(sanitize_string(PyStr(get_val(row,
                      <<"SpecialTerms", "Plan Details", "Special terms and conditions", "Special Terms",
                        "special_terms">>)))),
     promotion_details |-> PyStr(sanitize_string(PyStr(get_val(row,
                      <<"PromotionDesc", "Promotion", "Promotion details", "Promotions">>)))),
     fees_credits |-> PyStr(sanitize_string(PyStr(get_val(row,
                      <<"Fees/Credits", "MinUsageFeesCredits", "Min Usage Fees/Credits">>)))),
     min_usage_fees |-> PyStr(sanitize_string(PyStr(get_val(row,
                      <<"MinUsageFeesCredits", "Min Usage Fees/Credits", "Min Usage Fees">>)))),
     language |-> PyStr(sanitize_string(PyStr(OrText(get_val(row, <<"Language", "Lang">>), <<"E","n","g","l","i","s","h">>))))]

\* the exception, if any, that building the dict raises (only parse_int lets one through)
PlanRaises(plan) == plan.term_months.t = "raise" \/ plan.renewable_pct.t = "raise"

\* a backfill that forgets the 2000 kWh tier
BackfillLowTierOnly(plan) ==
    [plan EXCEPT !.price_kwh_500 = IF ~Truthy(@) THEN plan.price_kwh_1000 ELSE @]

\* "Ensure all required price points exist", lines 387-391 and 527-530
Backfill(plan) ==
    [plan EXCEPT !.price_kwh_500 = IF ~Truthy(@) THEN plan.price_kwh_1000 ELSE @,
                 !.price_kwh_2000 = IF ~Truthy(@) THEN plan.price_kwh_1000 ELSE @]

\* the validation gate of parse_csv_to_plans, lines 380 and 384: TRUE when the row continues
CsvGate(plan) ==
    /\ ~(~Truthy(plan.price_kwh_1000) \/ LeZero(plan.price_kwh_1000))
    /\ ~(~Truthy(plan.rep_name) \/ ~Truthy(plan.plan_name))

\* what happens to a row whose dict is plan
\*   "emit": plans.append(plan); "skip": continue; "raise": an exception leaves the function
GateCsvPlan(plan) ==
    CASE PlanRaises(plan) -> [outcome |-> "raise"]
      [] ~CsvGate(plan) -> [outcome |-> "skip"]
      [] OTHER -> [outcome |-> "emit", plan |-> Backfill(plan)]

\* the try block of one iteration of the loop over the reader
NormalizeCsvRow(row) == GateCsvPlan(CsvPlan(row))

----------------------------------------------------------------------------
(* JSON row normalizer (the body of parse_json_to_plans' loop) *)

PyDict(d) == [t |-> "dict", v |-> d]

\* item.get(a, item.get(b, default)) of a dict item
Get2(d, a, b, default) == DictGet(d, a, DictGet(d, b, default))

\* the dict built at lines 499-524
JsonPlan(d) ==
    [plan_id |-> PyStr(StrOf(Get2(d, "planId", "id", PyStr(<<>>)))),
     rep_name |-> PyStr(sanitize_string(Get2(d, "repName", "provider", PyStr(<<>>)))),
     plan_name |-> PyStr(sanitize_string(Get2(d, "planName", "name", PyStr(<<>>)))),
     tdu_area |-> PyStr(Upper(sanitize_string(DictGet(d, "tdu", PyStr(<<>>))))),
     price_kwh_500 |-> parse_float(Get2(d, "price500", "priceKwh500", PyStr(<<>>))),
     price_kwh_1000 |-> parse_float(Get2(d, "price1000", "priceKwh1000", PyStr(<<>>))),
     price_kwh_2000 |-> parse_float(Get2(d, "price2000", "priceKwh2000", PyStr(<<>>))),
     term_months |-> parse_int(Get2(d, "termMonths", "term", PyStr(<<>>))),
     rate_type |-> PyStr(<<"F","I","X","E","D">>),
     renewable_pct |-> parse_int(Get2(d, "renewablePct", "renewable", PyStr(<<"0">>))),
     is_prepaid |-> Get2(d, "isPrepaid", "prepaid", PyBool(FALSE)),
     is_tou |-> Get2(d, "isTou", "timeOfUse", PyBool(FALSE)),
     early_termination_fee |-> parse_float(Get2(d, "etf", "cancellationFee", PyStr(<<"0">>))),
     base_charge_monthly |-> parse_float(Get2(d, "baseCharge", "monthlyCharge", PyStr(<<"0">>))),
     efl_url |-> PyStr(sanitize_url(Get2(d, "eflUrl", "factLabel", PyStr(<<>>)))),
     enrollment_url |-> PyStr(sanitize_url(Get2(d, "enrollUrl", "enroll", PyStr(<<>>)))),
     terms_url |-> PyStr(sanitize_url(Get2(d, "tosUrl", "terms", PyStr(<<>>)))),
     special_terms |-> PyStr(sanitize_string(DictGet(d, "specialTerms", PyStr(<<>>)))),
     promotion_details |-> PyStr(sanitize_string(DictGet(d, "promotions", PyStr(<<>>)))),
     language |-> PyStr(sanitize_string(DictGet(d, "language", PyStr(<<"E","n","g","l","i","s","h">>))))]

\* the gate of parse_json_to_plans, line 526
JsonGate(plan) == Truthy(plan.price_kwh_1000) /\ GtZero(plan.price_kwh_1000)

\* what happens to a dict item of rate type rate whose dict is plan
GateJsonPlan(rate, plan) ==
    CASE rate.t # "str" -> [outcome |-> "raise"]
      [] ~Contains(Upper(rate.v), <<"F","I","X","E","D">>) -> [outcome |-> "skip"]
      [] PlanRaises(plan) -> [outcome |-> "raise"]
      [] ~JsonGate(plan) -> [outcome |-> "skip"]
      [] OTHER -> [outcome |-> "emit", plan |-> Backfill(plan)]

\* the try block of one iteration of the loop over plans_data
\*   "raise": item.get of a non-dict and .upper() of a non-str raise AttributeError, parse_int
\*   lets OverflowError and IndexError through; the except clause catches none of them
NormalizeJsonItem(item) ==
    IF item.t # "dict" THEN [outcome |-> "raise"]
    ELSE GateJsonPlan(Get2(item.v, "rateType", "rate_type", PyStr(<<>>)), JsonPlan(item.v))

----------------------------------------------------------------------------
(* Fingerprint engine, preference scorer, deduplicator *)

\* plan.get(field): a plan is a dict, a field it lacks reads as None
PlanGet(plan, field) == DictGet(plan, field, PyNone)

\* round(x * (1 / step)) * step for a finite x in 1/Unit: Python's round, half to even
RoundHalfEven(x, step) ==
    CASE 2 * (x % step) < step -> (x \div step) * step
      [] 2 * (x % step) > step -> ((x \div step) + 1) * step
      [] OTHER -> IF (x \div step) % 2 = 0 THEN (x \div step) * step ELSE ((x \div step) + 1) * step

\* round() of a value: nan raises ValueError, an infinity OverflowError
RoundValue(x, step) ==
    CASE x.t = "none" -> PyFloat(0)
      [] x.t = "nan" -> Raise("ValueError")
      [] x.t \in {"inf", "ninf"} -> Raise("OverflowError")
      [] OTHER -> PyFloat(RoundHalfEven(ToFloat(x).v, step))

\* round(price * 1000) / 1000
normalize_price(price) == RoundValue(price, Unit \div 1000)

\* a fee rounded like a price, to 3 decimals
RoundFeeToThree(fee) == RoundValue(fee, Unit \div 1000)

\* round(fee * 100) / 100
normalize_fee(fee) == RoundValue(fee, Unit \div 100)

fingerprint_data(plan) ==
    [rep |-> PyStr(Strip(Upper(Or(PlanGet(plan, "rep_name"), PyStr(<<>>)).v))),
     tdu |-> PyStr(Strip(Upper(Or(PlanGet(plan, "tdu_area"), PyStr(<<>>)).v))),
     rate_type |-> PyStr(Strip(Upper(Or(PlanGet(plan, "rate_type"), PyStr(<<"F","I","X","E","D">>)).v))),
     p500 |-> normalize_price(PlanGet(plan, "price_kwh_500")),
     p1000 |-> normalize_price(PlanGet(plan, "price_kwh_1000")),
     p2000 |-> normalize_price(PlanGet(plan, "price_kwh_2000")),
     term |-> Or(PlanGet(plan, "term_months"), PyInt(0)),
     etf |-> normalize_fee(PlanGet(plan, "early_termination_fee")),
     base |-> normalize_fee(PlanGet(plan, "base_charge_monthly")),
     renewable |-> Or(PlanGet(plan, "renewable_pct"), PyInt(0)),
     prepaid |-> PyBool(Truthy(PlanGet(plan, "is_prepaid"))),
     tou |-> PyBool(Truthy(PlanGet(plan, "is_tou")))]

\* the keys of fingerprint_data as json.dumps(sort_keys=True) orders them
SortedKeys == <<"base", "etf", "p1000", "p2000", "p500", "prepaid", "rate_type", "renewable",
                "rep", "tdu", "term", "tou">>

\* the characters of each key
KeyText == [base |-> <<"b","a","s","e">>, etf |-> <<"e","t","f">>, p1000 |-> <<"p","1","0","0","0">>, p2000 |-> <<"p","2","0","0","0">>,
            p500 |-> <<"p","5","0","0">>, prepaid |-> <<"p","r","e","p","a","i","d">>, rate_type |-> <<"r","a","t","e","_","t","y","p","e">>,
            renewable |-> <<"r","e","n","e","w","a","b","l","e">>, rep |-> <<"r","e","p">>, tdu |-> <<"t","d","u">>, term |-> <<"t","e","r","m">>,
            tou |-> <<"t","o","u">>]

\* the code point, in hexadecimal, of each letter outside ASCII
CodePoint == ("n~" :> <<"0","0","f","1">>) @@ ("a'" :> <<"0","0","e","1">>) @@ ("e'" :> <<"0","0","e","9">>) @@ ("i'" :> <<"0","0","e","d">>)
          @@ ("o'" :> <<"0","0","f","3">>) @@ ("u'" :> <<"0","0","f","a">>) @@ ("N~" :> <<"0","0","d","1">>) @@ ("A'" :> <<"0","0","c","1">>)
          @@ ("E'" :> <<"0","0","c","9">>) @@ ("I'" :> <<"0","0","c","d">>) @@ ("O'" :> <<"0","0","d","3">>) @@ ("U'" :> <<"0","0","d","a">>)
          @@ ("c/" :> <<"0","0","a","2">>)

\* json.dumps of one character of a str (ensure_ascii is on)
JsonChar(c) ==
    CASE c = "\"" -> <<"\\", "\"">>
      [] c = "\\" -> <<"\\", "\\">>
      [] c = "\t" -> <<"\\", "t">>
      [] c \in DOMAIN CodePoint -> <<"\\", "u">> \o CodePoint[c]
      [] OTHER -> <<c>>

RECURSIVE Flatten(_)
\* "".join(parts)
Flatten(parts) == IF parts = <<>> THEN <<>> ELSE Head(parts) \o Flatten(Tail(parts))

\* s without the zeros at its end, its first character kept
TrimZeros(s) == SubSeq(s, 1, SetMax({1} \cup {i \in DOMAIN s : s[i] # "0"}))

\* the decimals of n / Unit for n < Unit: four digits, the zeros at the end dropped
FractionRepr(n) ==
    TrimZeros(<<Digits[((n \div 1000) % 10) + 1], Digits[((n \div 100) % 10) + 1],
               Digits[((n \div 10) % 10) + 1], Digits[(n % 10) + 1]>>)

\* float.__repr__ of a finite float in 1/Unit (below 1e16, where repr has no exponent)
FloatRepr(x) ==
    IF x < 0 THEN <<"-">> \o NatToStr((-x) \div Unit) \o <<".">> \o FractionRepr((-x) % Unit)
    ELSE NatToStr(x \div Unit) \o <<".">> \o FractionRepr(x % Unit)

\* json.dumps of a scalar
JsonValue(x) ==
    CASE x.t = "str" -> <<"\"">> \o Flatten([i \in DOMAIN x.v |-> JsonChar(x.v[i])]) \o <<"\"">>
      [] x.t = "int" -> IntToStr(x.v)
      [] x.t = "float" -> FloatRepr(x.v)
      [] x.t = "bool" -> IF x.v THEN <<"t","r","u","e">> ELSE <<"f","a","l","s","e">>
      [] x.t = "none" -> <<"n","u","l","l">>
      [] x.t = "nan" -> <<"N","a","N">>
      [] x.t = "inf" -> <<"I","n","f","i","n","i","t","y">>
      [] x.t = "ninf" -> <<"-","I","n","f","i","n","i","t","y">>

\* "key": value
JsonItem(key, value) == <<"\"">> \o KeyText[key] \o <<"\"", ":", " ">> \o JsonValue(value)

\* ", ".join(items)
JoinItems(items) ==
    Flatten([i \in DOMAIN items |-> IF i = 1 THEN items[i] ELSE <<",", " ">> \o items[i]])

\* json.dumps(d, sort_keys=True): the text of the object
JsonDumps(d) ==
    <<"{">> \o JoinItems([i \in DOMAIN SortedKeys |-> JsonItem(SortedKeys[i], d[SortedKeys[i]])])
            \o <<"}">>

\* the fields of fingerprint_data that round a number, in the order the dict literal evaluates them
RoundedFields == <<"p500", "p1000", "p2000", "etf", "base">>

\* json.dumps of the dict d as a str value, or the first exception a rounding raised
DumpOrRaise(d, bad) == IF bad # {} THEN d[RoundedFields[SetMin(bad)]] ELSE PyStr(JsonDumps(d))

FingerprintOf(d) == DumpOrRaise(d, {i \in DOMAIN RoundedFields : d[RoundedFields[i]].t = "raise"})

\* a fingerprint that lets the plan's name into the provider field
FingerprintWithName(plan) ==
    FingerprintOf([fingerprint_data(plan) EXCEPT
                      !.rep = PyStr(@.v \o Upper(StrOf(PlanGet(plan, "plan_name"))))])

create_plan_fingerprint(plan) == FingerprintOf(fingerprint_data(plan))

\* the number of characters of name that are neither alphanumeric, space nor hyphen
SpecialChars(name) == Len(SelectSeq(name, LAMBDA c : ~IsAlnum(c) /\ c \notin {" ", "-"}))

\* a score that only marks Spanish down
LanguageScoreSpanishOnly(language) ==
    IF language \in {<<"s","p","a","n","i","s","h">>, <<"e","s","p","a","n~","o","l">>} THEN -50 ELSE 0

LanguageScore(language) ==
    CASE language = <<"e","n","g","l","i","s","h">> -> 50
      [] language \in {<<"s","p","a","n","i","s","h">>, <<"e","s","p","a","n~","o","l">>} -> -50
      [] OTHER -> 0

LengthPenalty(name_length) ==
    CASE name_length > 50 -> 15
      [] name_length > 30 -> 10
      [] name_length > 20 -> 5
      [] OTHER -> 0

\* penalties that count every occurrence of an accented vowel
TextPenaltyPerOccurrence(text) ==
    (IF Contains(text, <<"n~">>) THEN 20 ELSE 0)
        + 10 * Len(SelectSeq(text, LAMBDA c : c \in {"a'", "e'", "i'", "o'", "u'"}))
        + (IF Contains(text, <<"c","i","o'","n">>) THEN 15 ELSE 0)

\* the penalties for Spanish letters in text, which is in lower case
TextPenalty(text) ==
    (IF Contains(text, <<"n~">>) THEN 20 ELSE 0)
        + 10 * Cardinality({c \in {"a'", "e'", "i'", "o'", "u'"} : Contains(text, <<c>>)})
        + (IF Contains(text, <<"c","i","o'","n">>) THEN 15 ELSE 0)

ScoreOf(plan_name, special_terms, language) ==
    100 + LanguageScore(Lower(language))
        - TextPenalty(Lower(StrOf(plan_name) \o <<" ">> \o StrOf(special_terms)))
        - LengthPenalty(Len(plan_name.v))
        - 2 * SpecialChars(plan_name.v)

calculate_plan_preference(plan) ==
    ScoreOf(DictGet(plan, "plan_name", PyStr(<<>>)),
            DictGet(plan, "special_terms", PyStr(<<>>)),
            Or(PlanGet(plan, "language"), PyStr(<<>>)).v)

\* fingerprint_map as a sequence of [key, value] in insertion order
MapHas(map, key) == \E i \in DOMAIN map : map[i].key = key

MapGetValue(map, key) == map[CHOOSE i \in DOMAIN map : map[i].key = key].value

\* a map that puts a new key first: {key: value, **map}
MapSetAtFront(map, key, value) ==
    IF MapHas(map, key)
    THEN [i \in DOMAIN map |-> IF map[i].key = key THEN [key |-> key, value |-> value] ELSE map[i]]
    ELSE <<[key |-> key, value |-> value]>> \o map

\* a map that moves a key set again to the end: del map[key]; map[key] = value
MapSetMoveToEnd(map, key, value) ==
    Append(SelectSeq(map, LAMBDA e : e.key # key), [key |-> key, value |-> value])

\* a map that stores a copy marked with its key: map[key] = {**value, "fingerprint": key}
MapSetMarked(map, key, value) ==
    IF MapHas(map, key)
    THEN [i \in DOMAIN map |->
            IF map[i].key = key
            THEN [key |-> key,
                  value |-> [f \in DOMAIN value \cup {"fingerprint"} |->
                                IF f = "fingerprint" THEN key ELSE value[f]]]
            ELSE map[i]]
    ELSE Append(map, [key |-> key,
                      value |-> [f \in DOMAIN value \cup {"fingerprint"} |->
                                    IF f = "fingerprint" THEN key ELSE value[f]]])

\* a map that takes every assignment as a new entry
MapSetAppend(map, key, value) == Append(map, [key |-> key, value |-> value])

\* map[key] = value: a new key goes to the end, a key already held keeps its place
MapSet(map, key, value) ==
    IF MapHas(map, key)
    THEN [i \in DOMAIN map |-> IF map[i].key = key THEN [key |-> key, value |-> value] ELSE map[i]]
    ELSE Append(map, [key |-> key, value |-> value])

\* list(map.values())
MapValues(map) == [i \in DOMAIN map |-> map[i].value]

\* current_score >= existing_score
AtLeastScore(current_score, existing_score) == current_score >= existing_score

\* current_score > existing_score
HigherScore(current_score, existing_score) == current_score > existing_score

\* a loop body that never replaces the plan stored for a fingerprint
KeepFirstSeen(map, fingerprint, plan) ==
    IF ~MapHas(map, fingerprint) THEN MapSet(map, fingerprint, plan) ELSE map

\* a loop body that always stores the plan it is at
KeepLastSeen(map, fingerprint, plan) == MapSet(map, fingerprint, plan)

\* the body of the loop of deduplicate_plans for one plan whose fingerprint was computed
DedupeFold(map, fingerprint, plan) ==
    IF ~MapHas(map, fingerprint) THEN MapSet(map, fingerprint, plan)
    ELSE IF HigherScore(calculate_plan_preference(plan),
                        calculate_plan_preference(MapGetValue(map, fingerprint)))
         THEN MapSet(map, fingerprint, plan)
         ELSE map

\* the loop body for a plan whose fingerprint is known, or the exception the fingerprint raised
FoldOrRaise(map, fingerprint, plan) ==
    IF fingerprint.t = "raise" THEN fingerprint ELSE PyDict(DedupeFold(map, fingerprint, plan))

RECURSIVE DedupeLoop(_, _)
\* the loop from the map held by state over the plans ps: the final map, or the exception raised
DedupeLoop(state, ps) ==
    IF ps = <<>> \/ state.t = "raise" THEN state
    ELSE DedupeLoop(FoldOrRaise(state.v, create_plan_fingerprint(Head(ps)), Head(ps)), Tail(ps))

ListOrRaise(state) == IF state.t = "raise" THEN state ELSE [t |-> "list", v |-> MapValues(state.v)]

\* the whole function: [t |-> "list", v |-> the returned list], or the exception raised
deduplicate_plans(ps) == ListOrRaise(DedupeLoop(PyDict(<<>>), ps))

----------------------------------------------------------------------------
(* Bounded inputs *)

\* the longest document parsed, in rows or items
MaxRows == 2

\* the longest list of plans deduplicated
MaxPlans == 3

\* row with column col holding text / without column col (a short row)
Put(row, col, text) == (col :> text) @@ row

Drop(row, col) == [c \in DOMAIN row \ {col} |-> row[c]]

\* a row of the bracketed export
BaseCsvRow ==
    [c \in {"[idKey]", "[RepCompany]", "[Product]", "[TduCompanyName]", "[kwh500]", "[kwh1000]",
            "[kwh2000]", "[TermValue]", "[RateType]", "[Renewable]", "[CancelFee]", "[Language]",
            "[PrePaid]", "[TimeOfUse]", "[FactsURL]", "[SpecialTerms]"} |->
        CASE c = "[idKey]" -> <<"1","0","0","1">>
          [] c = "[RepCompany]" -> <<"A","c","m","e"," ","P","o","w","e","r">>
          [] c = "[Product]" -> <<"S","a","v","e","r"," ","1","2">>
          [] c = "[TduCompanyName]" -> <<"O","n","c","o","r"," ","E","l","e","c","t","r","i","c"," ","D","e","l","i","v","e","r","y"," ","C","o","m","p","a","n","y">>
          [] c = "[kwh500]" -> <<"0",".","1","0","1","0">>
          [] c = "[kwh1000]" -> <<"0",".","0","9","5","0">>
          [] c = "[kwh2000]" -> <<"0",".","0","9","0","0">>
          [] c = "[TermValue]" -> <<"1","2">>
          [] c = "[RateType]" -> <<"F","i","x","e","d">>
          [] c = "[Renewable]" -> <<"1","5">>
          [] c = "[CancelFee]" -> <<"$","1","5","0",".","0","0">>
          [] c = "[Language]" -> <<"E","n","g","l","i","s","h">>
          [] c = "[PrePaid]" -> <<"F","A","L","S","E">>
          [] c = "[TimeOfUse]" -> <<"f","a","l","s","e">>
          [] c = "[FactsURL]" -> <<"/","e","f","l","/","1","0","0","1">>
          [] c = "[SpecialTerms]" -> <<>>]

\* the same offer published in Spanish
SpanishCsvRow ==
    Put(Put(Put(Put(BaseCsvRow, "[idKey]", <<"1","0","0","2">>), "[Product]", <<"A","h","o","r","r","o"," ","1","2">>),
            "[Language]", <<"S","p","a","n","i","s","h">>), "[SpecialTerms]", <<"S","i","n"," ","c","a","r","g","o","s">>)

\* the same offer in English under a name full of accents and punctuation
OddEnglishCsvRow ==
    Put(Put(BaseCsvRow, "[idKey]", <<"1","0","0","3">>), "[Product]", <<"A","h","o","r","r","o"," ","n~","a'","e'","i'","o'","u'"," ","c","i","o'","n"," ","(","!","!","!","!","!","!",")">>)

\* the same offer in a legacy export: plain headers, prices in cents
LegacyCsvRow ==
    [c \in {"REP Name", "Plan Name", "TDU", "Price/kWh 500", "Price/kWh 1000", "Price/kWh 2000",
            "Term", "Renewable Perc", "Pricing Details", "Lang"} |->
        CASE c = "REP Name" -> <<"A","c","m","e"," ","P","o","w","e","r">>
          [] c = "Plan Name" -> <<"S","a","v","e","r"," ","1","2"," ","L","e","g","a","c","y">>
          [] c = "TDU" -> <<"O","N","C","O","R">>
          [] c = "Price/kWh 500" -> <<"1","0",".","1","0">>
          [] c = "Price/kWh 1000" -> <<"9",".","5","0">>
          [] c = "Price/kWh 2000" -> <<"9",".","0","0">>
          [] c = "Term" -> <<"1","2"," ","m","o","n","t","h","s">>
          [] c = "Renewable Perc" -> <<"1","5","%">>
          [] c = "Pricing Details" -> <<"C","a","n","c","e","l","l","a","t","i","o","n"," ","F","e","e",":"," ","$","1","5","0",".","0","0"," ","p","e","r"," ","c","o","n","t","r","a","c","t">>
          [] c = "Lang" -> <<"E","n","g","l","i","s","h">>]

CsvRowSamples ==
    { BaseCsvRow, SpanishCsvRow, OddEnglishCsvRow, LegacyCsvRow,
      Put(BaseCsvRow, "[kwh1000]", <<>>),
      Put(BaseCsvRow, "[kwh1000]", <<"a","b","c">>),
      Put(BaseCsvRow, "[kwh1000]", <<"0">>),
      Put(BaseCsvRow, "[kwh1000]", <<"-","1">>),
      Put(BaseCsvRow, "[kwh1000]", <<"n","a","n">>),
      Put(BaseCsvRow, "[RepCompany]", <<>>),
      Put(BaseCsvRow, "[Product]", <<" "," ">>),
      Put(Drop(BaseCsvRow, "[kwh500]"), "[kwh2000]", <<>>),
      Put(BaseCsvRow, "[kwh500]", <<"0">>),
      Put(BaseCsvRow, "[TermValue]", <<"i","n","f">>),
      Put(Put(Put(Put(Put(BaseCsvRow, "[kwh500]", <<"-","0",".","0","5">>), "[TermValue]", <<"-","3">>),
                  "[Renewable]", <<"1","5","0">>), "[PrePaid]", <<" ","y","e","s"," ">>), "[TimeOfUse]", <<"Y","e","s">>),
      Put(Put(Put(BaseCsvRow, "[TermValue]", <<"2","4">>), "[RateType]", <<"V","a","r","i","a","b","l","e">>), "[Product]", <<"F","l","e","x"," ","2","4">>) }

BaseJsonItem ==
    [c \in {"planId", "repName", "planName", "tdu", "rateType", "price500", "price1000",
            "price2000", "termMonths", "renewablePct", "etf", "language"} |->
        CASE c = "planId" -> PyInt(2001)
          [] c = "repName" -> PyStr(<<"A","c","m","e"," ","P","o","w","e","r">>)
          [] c = "planName" -> PyStr(<<"S","a","v","e","r"," ","1","2">>)
          [] c = "tdu" -> PyStr(<<"O","n","c","o","r">>)
          [] c = "rateType" -> PyStr(<<"F","i","x","e","d">>)
          [] c = "price500" -> PyStr(<<"1","0",".","1">>)
          [] c = "price1000" -> PyFloat(95000)
          [] c = "price2000" -> PyNone
          [] c = "termMonths" -> PyInt(12)
          [] c = "renewablePct" -> PyFloat(150000)
          [] c = "etf" -> PyStr(<<"$","1","5","0">>)
          [] c = "language" -> PyStr(<<"E","n","g","l","i","s","h">>)]

JsonItemSamples ==
    { PyDict(BaseJsonItem),
      PyDict(Put(Put(Put(BaseJsonItem, "planName", PyStr(<<"A","h","o","r","r","o"," ","1","2">>)), "language", PyStr(<<"S","p","a","n","i","s","h">>)),
                 "planId", PyInt(2002))),
      PyDict([c \in {"rateType", "price1000"} |->
                 IF c = "rateType" THEN PyStr(<<"F","i","x","e","d"," ","R","a","t","e">>) ELSE PyStr(<<"9",".","5">>)]),
      PyDict(Put(BaseJsonItem, "planName", PyStr(<<" ">>))),
      PyDict(Put(BaseJsonItem, "rateType", PyStr(<<"V","a","r","i","a","b","l","e">>))),
      PyDict(Drop(BaseJsonItem, "rateType")),
      PyDict(Put(BaseJsonItem, "rateType", PyNone)),
      PyDict(Put(BaseJsonItem, "price1000", PyStr(<<"n","a","n">>))),
      PyDict(Put(BaseJsonItem, "price1000", PyNaN)),
      PyDict(Put(BaseJsonItem, "price1000", PyInt(0))),
      PyDict(Put(BaseJsonItem, "price1000", PyStr(<<"-","9",".","5">>))),
      PyDict(Drop(BaseJsonItem, "price1000")),
      PyDict(Put(Put(BaseJsonItem, "price500", PyInt(0)), "isPrepaid", PyStr(<<"f","a","l","s","e">>))),
      PyDict(Put(BaseJsonItem, "termMonths", PyInf)),
      PyStr(<<"S","a","v","e","r"," ","1","2">>) }

\* the record the builder emits for BaseCsvRow
BasePlan ==
    [plan_id |-> PyStr(<<"1","0","0","1">>), rep_name |-> PyStr(<<"A","c","m","e"," ","P","o","w","e","r">>), plan_name |-> PyStr(<<"S","a","v","e","r"," ","1","2">>),
     tdu_area |-> PyStr(<<"O","N","C","O","R">>), price_kwh_500 |-> PyFloat(101000), price_kwh_1000 |-> PyFloat(95000),
     price_kwh_2000 |-> PyFloat(90000), term_months |-> PyInt(12), rate_type |-> PyStr(<<"F","I","X","E","D">>),
     renewable_pct |-> PyInt(15), is_prepaid |-> PyBool(FALSE), is_tou |-> PyBool(FALSE),
     early_termination_fee |-> PyFloat(1500000), base_charge_monthly |-> PyFloat(0),
     efl_url |-> PyStr(<<"h","t","t","p","s",":","/","/","w","w","w",".","p","o","w","e","r","t","o","c","h","o","o","s","e",".","o","r","g","/","e","f","l","/","1","0","0","1">>), enrollment_url |-> PyStr(<<>>),
     terms_url |-> PyStr(<<>>), special_terms |-> PyStr(<<>>), promotion_details |-> PyStr(<<>>),
     fees_credits |-> PyStr(<<>>), min_usage_fees |-> PyStr(<<>>), language |-> PyStr(<<"E","n","g","l","i","s","h">>)]

\* the base offer under other identity, text and link fields
RenamedPlan ==
    [BasePlan EXCEPT !.plan_id = PyStr(<<"1","0","0","9">>), !.plan_name = PyStr(<<"V","a","l","u","e"," ","1","2">>),
                     !.special_terms = PyStr(<<"F","r","e","e"," ","n","i","g","h","t","s">>), !.promotion_details = PyStr(<<"$","5","0"," ","c","r","e","d","i","t">>),
                     !.fees_credits = PyStr(<<"n","o","n","e">>), !.min_usage_fees = PyStr(<<"$","9",".","9","5"," ","u","n","d","e","r"," ","5","0","0">>),
                     !.efl_url = PyStr(<<"h","t","t","p","s",":","/","/","a",".","e","x","a","m","p","l","e","/","e","f","l">>),
                     !.enrollment_url = PyStr(<<"h","t","t","p","s",":","/","/","a",".","e","x","a","m","p","l","e","/","g","o">>),
                     !.terms_url = PyStr(<<"h","t","t","p","s",":","/","/","a",".","e","x","a","m","p","l","e","/","t","o","s">>)]

\* the base offer in Spanish
SpanishPlan ==
    [BasePlan EXCEPT !.plan_id = PyStr(<<"1","0","0","2">>), !.plan_name = PyStr(<<"A","h","o","r","r","o"," ","1","2">>),
                     !.language = PyStr(<<"S","p","a","n","i","s","h">>), !.special_terms = PyStr(<<"S","i","n"," ","p","r","o","m","o","c","i","o'","n">>)]

\* the base offer with no language field
UnmarkedPlan == Drop([BasePlan EXCEPT !.plan_name = PyStr(<<"S","a","v","e","r"," ","T","w","e","l","v","e">>)], "language")

\* the base offer written differently: equal to it only after normalization
UnnormalizedPlan ==
    Drop(Drop([BasePlan EXCEPT !.rep_name = PyStr(<<" ","a","c","m","e"," ","p","o","w","e","r">>), !.tdu_area = PyStr(<<"o","n","c","o","r"," ">>),
                               !.price_kwh_1000 = PyFloat(95004), !.price_kwh_500 = PyFloat(101000 - 4),
                               !.early_termination_fee = PyFloat(1500040),
                               !.base_charge_monthly = PyNone, !.is_prepaid = PyNone,
                               !.language = PyStr(<<"E","s","p","a","n~","o","l">>), !.plan_name = PyStr(<<"A","h","o","r","r","o"," ","D","o","c","e">>)],
              "rate_type"), "is_tou")

LongTermPlan == [BasePlan EXCEPT !.term_months = PyInt(24), !.plan_name = PyStr(<<"S","a","v","e","r"," ","2","4">>)]

TouSpanishPlan ==
    [BasePlan EXCEPT !.is_tou = PyBool(TRUE), !.plan_name = PyStr(<<"N","o","c","h","e","s"," ","G","r","a","t","i","s">>),
                     !.language = PyStr(<<"s","p","a","n","i","s","h">>)]

TouPlan == [BasePlan EXCEPT !.is_tou = PyBool(TRUE), !.plan_name = PyStr(<<"F","r","e","e"," ","N","i","g","h","t","s"," ","(","1","2",")">>)]

\* the plans the deduplicator is run on
DedupePool ==
    {BasePlan, RenamedPlan, SpanishPlan, UnmarkedPlan, LongTermPlan, TouSpanishPlan, TouPlan}

\* the plans whose fingerprints are compared: the base offer, plans equal to it but for fields
\* outside the fingerprint, plans that differ from it in one fingerprint field, and pairs that
\* differ only in how an absent value is written
FingerprintPool ==
    { BasePlan, RenamedPlan, SpanishPlan, UnmarkedPlan, UnnormalizedPlan,
      [BasePlan EXCEPT !.price_kwh_500 = PyFloat(101000 + 4)],
      [BasePlan EXCEPT !.rep_name = PyStr(<<"B","e","s","t"," ","P","o","w","e","r">>)],
      [BasePlan EXCEPT !.tdu_area = PyStr(<<"T","N","M","P">>)],
      [BasePlan EXCEPT !.rate_type = PyStr(<<"v","a","r","i","a","b","l","e">>)],
      [BasePlan EXCEPT !.price_kwh_500 = PyFloat(101000 + 6)],
      [BasePlan EXCEPT !.price_kwh_1000 = PyFloat(95000 + 10)],
      [BasePlan EXCEPT !.price_kwh_2000 = PyFloat(90000 - 10)],
      [BasePlan EXCEPT !.term_months = PyInt(24)],
      [BasePlan EXCEPT !.early_termination_fee = PyFloat(1500000 + 100)],
      [BasePlan EXCEPT !.early_termination_fee = PyFloat(1500000 + 40)],
      [BasePlan EXCEPT !.base_charge_monthly = PyFloat(49500)],
      [BasePlan EXCEPT !.renewable_pct = PyInt(100)],
      [BasePlan EXCEPT !.is_prepaid = PyBool(TRUE)],
      [BasePlan EXCEPT !.is_tou = PyBool(TRUE)],
      Drop(BasePlan, "base_charge_monthly"),
      Drop(BasePlan, "rate_type"),
      [BasePlan EXCEPT !.term_months = PyInt(0)],
      [BasePlan EXCEPT !.term_months = PyNone],
      [BasePlan EXCEPT !.renewable_pct = PyInt(0)],
      Drop(BasePlan, "renewable_pct"),
      [BasePlan EXCEPT !.early_termination_fee = PyFloat(0)],
      [BasePlan EXCEPT !.early_termination_fee = PyNone],
      [BasePlan EXCEPT !.price_kwh_2000 = PyFloat(0)],
      [BasePlan EXCEPT !.price_kwh_2000 = PyNone] }

\* the sequences over S of length at most n
SeqsUpTo(S, n) == UNION {[1..m -> S] : m \in 0..n}

----------------------------------------------------------------------------
(* The program: main parses the fetched document, print_summary deduplicates *)

\* no function is called outside main
NoCall == [fn |-> "main", arg |-> PyNone]

\* retry_with_backoff is not running
NoRetry == attempt = 0 /\ last_exception = PyNone /\ calls = <<>> /\ delays = <<>>

PyList(items) == [t |-> "list", v |-> items]

\* a CSV text as csv.DictReader sees its first line: no line or a blank one ("absent"), a line
\* csv rejects with csv.Error, such as a field over the field size limit ("malformed"), or a line
\* of column names followed by the rows
CsvDocuments ==
    {[header |-> "present", rows |-> rs] : rs \in SeqsUpTo(CsvRowSamples, MaxRows)}
        \cup {[header |-> "absent", rows |-> <<>>], [header |-> "malformed", rows |-> <<>>]}

\* what an object of a JSON document holds under plans, data or results
JsonListings ==
    {PyList(<<>>), PyList(<<PyDict(BaseJsonItem)>>), PyNone, PyInt(5), PyStr(<<>>), PyStr(<<"n","o","n","e">>),
     PyDict(<<>>), PyDict([error |-> PyStr(<<"x">>)])}

JsonObjects ==
    {[plans |-> v] : v \in JsonListings}
        \cup {[data |-> v] : v \in JsonListings}
        \cup {[results |-> v] : v \in JsonListings}
        \cup {[plans |-> PyNone, data |-> PyList(<<PyDict(BaseJsonItem)>>)],
              [data |-> PyList(<<PyDict(BaseJsonItem)>>), results |-> PyNone],
              [count |-> PyInt(0)]}

\* a JSON text as json.loads reads it: the JSONDecodeError of a text that is not JSON, an array
\* of items, a scalar, or an object
JsonDocuments ==
    {PyList(items) : items \in SeqsUpTo(JsonItemSamples, MaxRows)}
        \cup {Raise("JSONDecodeError"), PyNone, PyInt(5), PyStr(<<"a","b","c">>), PyBool(TRUE), PyDict(<<>>)}
        \cup {PyDict(object) : object \in JsonObjects}

\* main has fetched a document of either type and calls its builder
Init ==
    /\ \/ /\ data_type = "csv"
          /\ call \in [fn : {"parse_csv_to_plans"}, arg : CsvDocuments]
       \/ /\ data_type = "json"
          /\ call \in [fn : {"parse_json_to_plans"}, arg : JsonDocuments]
    /\ rows = <<>>
    /\ plans = <<>>
    /\ pc = "open"
    /\ row_count = 0
    /\ error_count = 0
    /\ k = 0
    /\ fingerprint_map = <<>>
    /\ unique_plans = <<>>
    /\ result = PyNone
    /\ NoRetry

\* deduplicate_plans is called on the list ps, outside main
DedupeCalled(ps) ==
    /\ data_type = "none"
    /\ rows = <<>>
    /\ plans = ps
    /\ pc = "dedupe"
    /\ row_count = 0
    /\ error_count = 0
    /\ k = 0
    /\ fingerprint_map = <<>>
    /\ unique_plans = <<>>
    /\ call = NoCall
    /\ result = PyNone
    /\ NoRetry

InitDedupe == \E ps \in SeqsUpTo(DedupePool, MaxPlans) : DedupeCalled(ps)

\* the fingerprints of two plans are computed and compared, as the loop does for a list of two
InitFingerprint == \E p, q \in FingerprintPool : DedupeCalled(<<p, q>>)

\* the end of an iteration whose try block ended as r says: the record is appended, the row is
\* skipped, an exception of a caught class is counted by the except clause ("error": no call of
\* either try block raises one on the values modelled), or the exception leaves the builder
RowDone(r) ==
    /\ row_count' = row_count + 1
    /\ plans' = IF r.outcome = "emit" THEN Append(plans, r.plan) ELSE plans
    /\ error_count' = IF r.outcome = "error" THEN error_count + 1 ELSE error_count
    /\ pc' = IF r.outcome = "raise" THEN "raised" ELSE pc

\* the builder goes on to its loop over items
Loop(items) == rows' = items /\ pc' = "parse"

\* the builder returns the empty list before its loop: "return []"
ReturnEmpty == rows' = rows /\ pc' = "main"

\* an exception leaves the builder before its loop
RaiseUncaught == rows' = rows /\ pc' = "raised"

\* lines 202-220: "raise ValueError" for no columns, inside a try that catches csv.Error only
CsvOpened(document) ==
    CASE document.header = "malformed" -> ReturnEmpty
      [] document.header = "absent" -> RaiseUncaught
      [] OTHER -> Loop(document.rows)

\* the prologue of parse_csv_to_plans (lines 197-223)
OpenCsv ==
    /\ pc = "open"
    /\ data_type = "csv"
    /\ CsvOpened(call.arg)
    /\ UNCHANGED <<data_type, row_count, error_count, plans, k, fingerprint_map, unique_plans>>
    /\ UNCHANGED <<call, result, retry_vars>>

\* data.get("plans", data.get("data", data.get("results", [])))
PlansOf(object) ==
    DictGet(object, "plans", DictGet(object, "data", DictGet(object, "results", PyList(<<>>))))

\* the orders in which a dict yields the keys
KeyOrders(keys) == {order \in [1 .. Cardinality(keys) -> keys] : Range(order) = keys}

\* "for item in plans_data": a list yields its items, a str its characters, a dict its keys (a
\* key is kept as one atom), and anything else raises TypeError
Iterate(plans_data) ==
    CASE plans_data.t = "list" -> Loop(plans_data.v)
      [] plans_data.t = "str" -> Loop([i \in DOMAIN plans_data.v |-> PyStr(<<plans_data.v[i]>>)])
      [] plans_data.t = "dict" ->
            \E order \in KeyOrders(DOMAIN plans_data.v) :
                Loop([i \in DOMAIN order |-> PyStr(<<order[i]>>)])
      [] OTHER -> RaiseUncaught

\* lines 475-490: [] for a text that is not JSON and for a scalar
JsonOpened(data) ==
    CASE data.t = "raise" -> ReturnEmpty
      [] data.t = "list" -> Iterate(data)
      [] data.t = "dict" -> Iterate(PlansOf(data.v))
      [] OTHER -> ReturnEmpty

\* the prologue of parse_json_to_plans (lines 475-492)
OpenJson ==
    /\ pc = "open"
    /\ data_type = "json"
    /\ JsonOpened(call.arg)
    /\ UNCHANGED <<data_type, row_count, error_count, plans, k, fingerprint_map, unique_plans>>
    /\ UNCHANGED <<call, result, retry_vars>>

\* one iteration of "for row in reader" (lines 237-399)
ParseCsvRow ==
    /\ pc = "parse"
    /\ data_type = "csv"
    /\ row_count < Len(rows)
    /\ RowDone(NormalizeCsvRow(rows[row_count + 1]))
    /\ UNCHANGED <<data_type, rows, k, fingerprint_map, unique_plans>>
    /\ UNCHANGED <<call, result, retry_vars>>

\* one iteration of "for item in plans_data" (lines 492-534); row_count is the iterator's place
ParseJsonItem ==
    /\ pc = "parse"
    /\ data_type = "json"
    /\ row_count < Len(rows)
    /\ RowDone(NormalizeJsonItem(rows[row_count + 1]))
    /\ UNCHANGED <<data_type, rows, k, fingerprint_map, unique_plans>>
    /\ UNCHANGED <<call, result, retry_vars>>

\* "return plans" of either builder
ParseReturn ==
    /\ pc = "parse"
    /\ row_count = Len(rows)
    /\ pc' = "main"
    /\ UNCHANGED <<data_type, rows, row_count, error_count, plans, k, fingerprint_map, unique_plans>>
    /\ UNCHANGED <<call, result, retry_vars>>

\* main: "if not plans: sys.exit(1)"
MainExit ==
    /\ pc = "main"
    /\ plans = <<>>
    /\ pc' = "exit"
    /\ UNCHANGED <<data_type, rows, row_count, error_count, plans, k, fingerprint_map, unique_plans>>
    /\ UNCHANGED <<call, result, retry_vars>>

\* main: save_plans, then print_summary calls deduplicate_plans(plans)
MainSummary ==
    /\ pc = "main"
    /\ plans # <<>>
    /\ pc' = "dedupe"
    /\ k' = 0
    /\ fingerprint_map' = <<>>
    /\ UNCHANGED <<data_type, rows, row_count, error_count, plans, unique_plans>>
    /\ UNCHANGED <<call, result, retry_vars>>

\* the end of an iteration of the deduplicator that left state: the new map, or the exception
Folded(state) ==
    IF state.t = "raise"
    THEN pc' = "raised" /\ UNCHANGED <<k, fingerprint_map>>
    ELSE fingerprint_map' = state.v /\ k' = k + 1 /\ pc' = pc

\* one iteration of "for plan in plans" (lines 681-693)
DedupeIterate ==
    /\ pc = "dedupe"
    /\ k < Len(plans)
    /\ Folded(FoldOrRaise(fingerprint_map, create_plan_fingerprint(plans[k + 1]), plans[k + 1]))
    /\ UNCHANGED <<data_type, rows, row_count, error_count, plans, unique_plans>>
    /\ UNCHANGED <<call, result, retry_vars>>

\* "return list(fingerprint_map.values())"
DedupeReturn ==
    /\ pc = "dedupe"
    /\ k = Len(plans)
    /\ unique_plans' = MapValues(fingerprint_map)
    /\ pc' = "done"
    /\ UNCHANGED <<data_type, rows, row_count, error_count, plans, k, fingerprint_map>>
    /\ UNCHANGED <<call, result, retry_vars>>

Next ==
    \/ OpenCsv
    \/ OpenJson
    \/ ParseCsvRow
    \/ ParseJsonItem
    \/ ParseReturn
    \/ MainExit
    \/ MainSummary
    \/ DedupeIterate
    \/ DedupeReturn

Spec == Init /\ [][Next]_vars

\* deduplicate_plans alone
NextDedupe ==
    \/ DedupeIterate
    \/ DedupeReturn

SpecDedupe == InitDedupe /\ [][NextDedupe]_vars

SpecFingerprint == InitFingerprint /\ [][NextDedupe]_vars

\* ---------------------------------------------------------------------------------------------
\* A function of the module called alone, outside main

MaxPieces == 3

\* the pieces the texts handed to the coercers are made of
NumeralPieces ==
    {<<"0">>, <<"1">>, <<"5">>, <<"9">>, <<".">>, <<"-">>, <<"$">>, <<",">>, <<"%">>, <<" ">>, <<"n","a","n">>, <<"i","n","f">>,
     <<"m","o","n","t","h","s">>}

Extend(texts) == texts \cup {t \o p : t \in texts, p \in NumeralPieces}

\* the texts of at most n pieces
RECURSIVE TextsUpTo(_)
TextsUpTo(n) == IF n = 0 THEN {<<>>} ELSE Extend(TextsUpTo(n - 1))

CoercerTexts ==
    TextsUpTo(MaxPieces)
        \cup {<<"0",".","0","9","5","0">>, <<"9",".","5","0">>, <<"1","2"," ","m","o","n","t","h","s">>, <<"$","1",",","2","3","4",".","5","0">>, <<"-","I","n","f","i","n","i","t","y">>, <<"N","a","N">>,
              <<"1","5",".","9","c/">>, <<"+","1",".","5">>}

\* what a cell of a CSV row or a value of a JSON item can be
CoercerValues ==
    {PyStr(t) : t \in CoercerTexts}
        \cup {PyNone, PyInt(0), PyInt(12), PyFloat(950), PyFloat(95000), PyNaN, PyInf}

TduKeys == {tdu_mapping[i].key : i \in DOMAIN tdu_mapping}

\* utility names as a CSV row spells them: the keys of the table, in other cases, padded,
\* shortened and lengthened, and names the table does not know
TduNames ==
    TduKeys
        \cup {Lower(key) : key \in TduKeys}
        \cup {<<" ">> \o key \o <<" ">> : key \in TduKeys}
        \cup {FirstToken(key) : key \in TduKeys}
        \cup {key \o <<" ","C","O">> : key \in TduKeys}
        \cup {<<"O","n","c","o","r"," ","E","l","e","c","t","r","i","c"," ","D","e","l","i","v","e","r","y"," ","C","o","m","p","a","n","y">>, <<"S","o","m","e"," ","N","e","w"," ","U","t","i","l","i","t","y">>, <<"N","e","w"," ","U","t","i","l","i","t","y"," ","o","f"," ","T","e","x","a","s">>,
              <<"T","e","x","a","s">>, <<"x">>, <<"Q">>, <<"E","l","e","c","t","r","i","c">>, <<"U","n","k","n","o","w","n">>,
              <<>>, <<" ">>, <<" "," "," ">>, <<"\t">>}

Repeat(c, n) == [i \in 1 .. n |-> c]

CandidateNames == {Repeat(c, n) : c \in {"a", "A", "!", "-", "n~"}, n \in {0, 10, 25, 35, 60}}

CandidateTerms ==
    {PyStr(<<>>), PyStr(<<"A","u","t","o","p","a","y"," ","r","e","q","u","i","r","e","d">>), PyStr(<<"P","r","o","m","o","c","i","o'","n",":"," ","n~"," ","a'"," ","e'"," ","i'"," ","u'">>),
     PyStr(<<"S","e","n~","o","r",","," ","m","a'","s"," ","y"," ","m","a'","s">>), PyStr(<<"P","R","O","M","O","C","I","O'","N"," ","D","E"," ","A","N~","O"," ","N","U","E","V","O">>)}

CandidateLanguages ==
    {PyStr(<<"E","n","g","l","i","s","h">>), PyStr(<<"E","N","G","L","I","S","H">>), PyStr(<<"S","p","a","n","i","s","h">>), PyStr(<<"E","s","p","a","n~","o","l">>),
     PyStr(<<>>), PyNone}

\* the plans calculate_plan_preference is called with
Candidates ==
    {[plan_name |-> PyStr(name), special_terms |-> terms, language |-> language] :
        name \in CandidateNames, terms \in CandidateTerms, language \in CandidateLanguages}

CoercerCalls == [fn : {"parse_price", "parse_float", "parse_int"}, arg : CoercerValues]

TduCalls == [fn : {"normalize_tdu_name"}, arg : {PyStr(name) : name \in TduNames}]

PreferenceCalls == [fn : {"calculate_plan_preference"}, arg : Candidates]

\* the columns of a row that two aliases of one field can name, and the text each holds
AliasColumns == {"kwh500", "[kwh500]", "Price500", "[Price500]"}

CellOf(column) ==
    CASE column = "kwh500" -> <<"0",".","1","1">>
      [] column = "[kwh500]" -> <<"0",".","1","2">>
      [] column = "Price500" -> <<"1","3",".","0">>
      [] column = "[Price500]" -> <<"1","4",".","0">>

\* the rows over those columns: a column is missing, empty, or holds its text
AliasRows ==
    UNION {{[c \in columns |-> IF c \in empty THEN <<>> ELSE CellOf(c)] : empty \in SUBSET columns} :
              columns \in SUBSET AliasColumns}

GetValCalls ==
    [fn : {"get_val"},
     arg : [row : AliasRows, keys : {<<"kwh500", "Price500">>, <<"Price500", "kwh500">>, <<"kwh500">>}]]

\* ZIP codes at and around the ends of the five-digit interval
ZipSamples == {-1, 0, 750, 9999, 10000, 10001, 75001, 75999, 77001, 99998, 99999, 100000}

ZipCalls == [fn : {"validate_zip_code_range"}, arg : [min_zip : ZipSamples, max_zip : ZipSamples]]

\* one function is called with one argument
InitCall ==
    /\ \/ call \in CoercerCalls
       \/ call \in TduCalls
       \/ call \in PreferenceCalls
       \/ call \in GetValCalls
       \/ call \in ZipCalls
    /\ result = PyNone
    /\ NoRetry
    /\ pc = "call"
    /\ data_type = "none"
    /\ rows = <<>>
    /\ row_count = 0
    /\ error_count = 0
    /\ plans = <<>>
    /\ k = 0
    /\ fingerprint_map = <<>>
    /\ unique_plans = <<>>

\* the call returns value, or raises it
Returns(value) ==
    /\ result' = value
    /\ pc' = IF value.t = "raise" THEN "raised" ELSE "returned"
    /\ UNCHANGED <<data_type, rows, row_count, error_count, plans, k, fingerprint_map, unique_plans>>
    /\ UNCHANGED <<call, retry_vars>>

CallParsePrice == pc = "call" /\ call.fn = "parse_price" /\ Returns(parse_price(call.arg))

CallParseFloat == pc = "call" /\ call.fn = "parse_float" /\ Returns(parse_float(call.arg))

CallParseInt == pc = "call" /\ call.fn = "parse_int" /\ Returns(parse_int(call.arg))

CallNormalizeTdu ==
    pc = "call" /\ call.fn = "normalize_tdu_name" /\ Returns(PyStr(normalize_tdu_name(call.arg.v)))

CallPreference ==
    /\ pc = "call"
    /\ call.fn = "calculate_plan_preference"
    /\ Returns(PyInt(calculate_plan_preference(call.arg)))

CallGetVal ==
    pc = "call" /\ call.fn = "get_val" /\ Returns(PyStr(get_val(call.arg.row, call.arg.keys)))

\* a range whose upper end may equal its lower end only above it: "if min_zip >= max_zip"
validate_zip_code_range_strict(min_zip, max_zip) ==
    IF min_zip < 10000 \/ max_zip > 99999 THEN FALSE
    ELSE IF min_zip >= max_zip THEN FALSE
    ELSE TRUE

\* TDURateValidator.validate_zip_code_range
validate_zip_code_range(min_zip, max_zip) ==
    IF min_zip < 10000 \/ max_zip > 99999 THEN FALSE
    ELSE IF min_zip > max_zip THEN FALSE
    ELSE TRUE

CallValidateZip ==
    /\ pc = "call"
    /\ call.fn = "validate_zip_code_range"
    /\ Returns(PyBool(validate_zip_code_range(call.arg.min_zip, call.arg.max_zip)))

NextCall ==
    \/ CallParsePrice
    \/ CallParseFloat
    \/ CallParseInt
    \/ CallNormalizeTdu
    \/ CallPreference
    \/ CallGetVal
    \/ CallValidateZip

SpecCall == InitCall /\ [][NextCall]_vars

\* ---------------------------------------------------------------------------------------------
\* retry_with_backoff, called alone (lines 80-110)

MAX_RETRIES == 4

BASE_DELAY == 2

\* classes of requests.exceptions.RequestException, and exceptions of other classes
RequestExceptions == {Raise("ConnectionError"), Raise("Timeout"), Raise("HTTPError")}

OtherExceptions == {Raise("ValueError")}

\* what func may return
FuncReturns == {PyStr(<<"c","s","v">>), PyNone}

\* random.uniform(0, 1), in 1/Unit
Jitters == {0, Unit \div 2, Unit}

InitRetry ==
    /\ call = [fn |-> "retry_with_backoff", arg |-> PyNone]
    /\ result = PyNone
    /\ pc = "retry"
    /\ NoRetry
    /\ data_type = "none"
    /\ rows = <<>>
    /\ row_count = 0
    /\ error_count = 0
    /\ plans = <<>>
    /\ k = 0
    /\ fingerprint_map = <<>>
    /\ unique_plans = <<>>

\* the loop of retry_with_backoff is at the start of an iteration
InLoop == pc = "retry" /\ attempt < MAX_RETRIES

RetryIdle == UNCHANGED <<data_type, rows, row_count, error_count, plans, k, fingerprint_map, unique_plans, call>>

\* delay = BASE_DELAY * (2**attempt) + random.uniform(0, 1), in 1/Unit
BackoffLinear(n, jitter) == BASE_DELAY * (n + 1) * Unit + jitter

Backoff(n, jitter) == BASE_DELAY * (2 ^ n) * Unit + jitter

\* "return func(*args, **kwargs)" where func returns
RetryReturns ==
    /\ InLoop
    /\ \E value \in FuncReturns :
          /\ calls' = Append(calls, value)
          /\ result' = value
    /\ pc' = "returned"
    /\ UNCHANGED <<attempt, last_exception, delays>>
    /\ RetryIdle

\* an iteration where func raises a request exception: the except clause sleeps unless this was
\* the last attempt, and the loop goes on
RetryCatches ==
    /\ InLoop
    /\ \E e \in RequestExceptions :
          /\ calls' = Append(calls, e)
          /\ last_exception' = e
    /\ IF attempt < MAX_RETRIES - 1
       THEN \E jitter \in Jitters : delays' = Append(delays, Backoff(attempt, jitter))
       ELSE delays' = delays
    /\ attempt' = attempt + 1
    /\ UNCHANGED <<pc, result>>
    /\ RetryIdle

\* an iteration where func raises an exception the except clause does not name
RetryPropagates ==
    /\ InLoop
    /\ \E e \in OtherExceptions :
          /\ calls' = Append(calls, e)
          /\ result' = e
    /\ pc' = "raised"
    /\ UNCHANGED <<attempt, last_exception, delays>>
    /\ RetryIdle

\* "raise last_exception" after the loop
RetryRaises ==
    /\ pc = "retry"
    /\ attempt = MAX_RETRIES
    /\ result' = last_exception
    /\ pc' = "raised"
    /\ UNCHANGED <<attempt, last_exception, calls, delays>>
    /\ RetryIdle

NextRetry == RetryReturns \/ RetryCatches \/ RetryPropagates \/ RetryRaises

SpecRetry == InitRetry /\ [][NextRetry]_vars

\* the interpreter runs the function on: func returns or raises, time.sleep returns
FairSpecRetry == SpecRetry /\ WF_vars(NextRetry)

----------------------------------------------------------------------------
(* Properties of the deduplicator *)

\* the preference score and the fingerprint of the plan at position i of the input
Score(i) == calculate_plan_preference(plans[i])

Fingerprint(i) == create_plan_fingerprint(plans[i])

\* the fingerprints of the first n plans of the input
Fingerprints(n) == [j \in 1..n |-> Fingerprint(j)] \o <<>>

\* the positions of the plans whose fingerprint, in the list fps, is key
Group(key, fps) == {j \in DOMAIN fps : fps[j] = key}

\* of the positions G, none before m has the score best or a higher one, none after m a higher
EarliestOfBest(m, best, G) ==
    \A i \in G : (i < m => Score(i) < best) /\ (i > m => Score(i) <= best)

\* the record held is, of the plans at the positions G, the earliest of the highest score
IsEarliestBest(held, G) == \E m \in G : plans[m] = held /\ EarliestOfBest(m, Score(m), G)

\* every record the map holds is the earliest of the highest score among the plans of its key
HoldsEarliestBest(map, fps) ==
    \A e \in DOMAIN map : IsEarliestBest(map[e].value, Group(map[e].key, fps))

RECURSIVE Ascending(_)
\* the members of a set of numbers, in ascending order
Ascending(S) == IF S = {} THEN <<>> ELSE <<SetMin(S)>> \o Ascending(S \ {SetMin(S)})

\* the positions of fps at which a fingerprint occurs for the first time
FirstOccurrences(fps) == Ascending({j \in DOMAIN fps : \A i \in 1..(j - 1) : fps[i] # fps[j]})

\* the fingerprints of the list out are those at the positions first of the list fps, in order
SameOrder(out, fps, first) ==
    /\ Len(out) = Len(first)
    /\ \A i \in DOMAIN out : create_plan_fingerprint(out[i]) = fps[first[i]]

\* C1: deduplicate_plans is idempotent: run on the list it returned, it returns that list again,
\* the same records in the same order.
C1_DedupeIdempotent ==
    pc = "done" => deduplicate_plans(unique_plans) = [t |-> "list", v |-> unique_plans]

\* a run that merged duplicates and returned two records or more
C1_Witness == pc = "done" /\ Len(unique_plans) >= 2 /\ Len(unique_plans) < Len(plans)

\* C2: the record stored for a fingerprint is replaced only by a record of strictly greater score:
\* at every point of the loop, and in the list returned, the record held for a fingerprint is the
\* earliest of the records seen with that fingerprint that have the highest score among them.
C2_KeepsEarliestBest ==
    pc \in {"dedupe", "done"} => HoldsEarliestBest(fingerprint_map, Fingerprints(k))

\* a group of three: the second record replaced the first, the third tied with it and lost
C2_Witness ==
    /\ pc = "done"
    /\ Len(plans) = 3
    /\ unique_plans = <<plans[2]>>
    /\ Score(1) < Score(2)
    /\ Score(3) = Score(2)
    /\ plans[3] # plans[2]

\* C3: the list returned is ordered by the position at which each fingerprint was first seen in
\* the input, also when the record kept for a fingerprint is a later record that replaced it.
C3_FirstSeenOrder ==
    pc = "done" =>
        SameOrder(unique_plans, Fingerprints(Len(plans)), FirstOccurrences(Fingerprints(Len(plans))))

\* the first fingerprint's record was replaced by the third plan, after a second fingerprint came
C3_Witness ==
    /\ pc = "done"
    /\ Len(plans) = 3
    /\ plans[1] # plans[3]
    /\ unique_plans = <<plans[3], plans[2]>>

\* the fields the fingerprint is made of
FingerprintFields ==
    {"rep_name", "tdu_area", "rate_type", "price_kwh_500", "price_kwh_1000", "price_kwh_2000",
     "term_months", "early_termination_fee", "base_charge_monthly", "renewable_pct", "is_prepaid",
     "is_tou"}

\* the two plans agree on every field of the fingerprint, as written
AgreeOnFingerprintFields(p, q) == \A f \in FingerprintFields : PlanGet(p, f) = PlanGet(q, f)

IsEnglish(plan) == Lower(plan.language.v) = <<"e","n","g","l","i","s","h">>

IsSpanish(plan) == Lower(plan.language.v) = <<"s","p","a","n","i","s","h">>

\* a CSV document of two rows for one offer, one in English and one in Spanish, in either order,
\* parsed and deduplicated
LanguagePair ==
    /\ data_type = "csv"
    /\ pc = "done"
    /\ Len(rows) = 2
    /\ Len(plans) = 2
    /\ AgreeOnFingerprintFields(plans[1], plans[2])
    /\ plans[1].plan_name # plans[2].plan_name
    /\ \E e \in 1..2 : IsEnglish(plans[e]) /\ IsSpanish(plans[3 - e])

EnglishOne == CHOOSE e \in 1..2 : IsEnglish(plans[e])

OtherFields ==
    {"plan_id", "plan_name", "language", "special_terms", "promotion_details", "fees_credits",
     "min_usage_fees", "efl_url", "enrollment_url", "terms_url"}

\* C5: two plans that agree on the twelve fingerprint fields have the same fingerprint, whatever
\* their plan_id, plan_name, language, free-text and URL fields are.
C5_FingerprintIgnoresOtherFields ==
    \A i, j \in 1..k :
        AgreeOnFingerprintFields(plans[i], plans[j]) => Fingerprint(i) = Fingerprint(j)

\* two plans that differ in every other field were given one fingerprint
C5_Witness ==
    /\ k = 2
    /\ Len(fingerprint_map) = 1
    /\ AgreeOnFingerprintFields(plans[1], plans[2])
    /\ \A f \in OtherFields : PlanGet(plans[1], f) # PlanGet(plans[2], f)

\* the multiple of step nearest to x, the even one of two equally near
Nearest(x, step) ==
    CHOOSE m \in {x - (x % step), x - (x % step) + step} :
        /\ 2 * (IF x > m THEN x - m ELSE m - x) <= step
        /\ 2 * (IF x > m THEN x - m ELSE m - x) = step => (m \div step) % 2 = 0

\* a text field upper-cased and trimmed, an absent or empty one read as default
NormalizedText(x, default) == IF x.t = "none" \/ x.v = <<>> THEN default ELSE Strip(Upper(x.v))

\* a number rounded to the multiple of step, an absent one read as 0
NormalizedNumber(x, step) == IF x.t = "none" THEN 0 ELSE Nearest(ToFloat(x).v, step)

\* a whole number, an absent one read as 0
NormalizedCount(x) == IF x.t = "none" THEN 0 ELSE x.v

\* every fingerprint field of the two plans matches after normalization
NormalizedMatch(p, q) ==
    /\ \A f \in {"rep_name", "tdu_area"} :
           NormalizedText(PlanGet(p, f), <<>>) = NormalizedText(PlanGet(q, f), <<>>)
    /\ NormalizedText(PlanGet(p, "rate_type"), <<"F","I","X","E","D">>)
           = NormalizedText(PlanGet(q, "rate_type"), <<"F","I","X","E","D">>)
    /\ \A f \in {"price_kwh_500", "price_kwh_1000", "price_kwh_2000"} :
           NormalizedNumber(PlanGet(p, f), Unit \div 1000) = NormalizedNumber(PlanGet(q, f), Unit \div 1000)
    /\ \A f \in {"early_termination_fee", "base_charge_monthly"} :
           NormalizedNumber(PlanGet(p, f), Unit \div 100) = NormalizedNumber(PlanGet(q, f), Unit \div 100)
    /\ \A f \in {"term_months", "renewable_pct"} :
           NormalizedCount(PlanGet(p, f)) = NormalizedCount(PlanGet(q, f))
    /\ \A f \in {"is_prepaid", "is_tou"} : Truthy(PlanGet(p, f)) = Truthy(PlanGet(q, f))

\* C6: two plans have equal fingerprints if and only if every fingerprint field matches after
\* normalization: texts upper-cased and trimmed, prices rounded to 3 decimals, fees to 2, an
\* absent value read as its default, the flags as booleans.
C6_EqualIffNormalizedMatch ==
    \A i, j \in 1..k : (Fingerprint(i) = Fingerprint(j)) <=> NormalizedMatch(plans[i], plans[j])

\* two plans written differently in fingerprint fields were given one fingerprint
C6_Witness ==
    /\ k = 2
    /\ Len(fingerprint_map) = 1
    /\ ~AgreeOnFingerprintFields(plans[1], plans[2])
    /\ NormalizedMatch(plans[1], plans[2])

----------------------------------------------------------------------------
(* Properties of the builders *)

\* the list plans is the output of a builder
Built == data_type \in {"csv", "json"}

\* C7 as stated: every record a builder emits, from CSV or from JSON, has price_kwh_1000 > 0.
C7_EmittedPricePositive == Built => \A i \in DOMAIN plans : GtZero(plans[i].price_kwh_1000)

\* C8 as stated: every record a builder emits, from CSV or from JSON, has a non-empty rep_name
\* and a non-empty plan_name.
C8_EmittedNamesNonEmpty ==
    Built => \A i \in DOMAIN plans : plans[i].rep_name.v # <<>> /\ plans[i].plan_name.v # <<>>

\* the dict the normalizer builds for a row or item of the document
SourceRecord(r) == IF data_type = "csv" THEN CsvPlan(r) ELSE JsonPlan(r.v)

\* the two checks of the gate
PassesGate(plan) ==
    /\ GtZero(plan.price_kwh_1000)
    /\ plan.rep_name.v # <<>>
    /\ plan.plan_name.v # <<>>

\* the rows or items, among the first n of the document, that pass the gate
Passing(n) == SelectSeq(SubSeq(rows, 1, n), LAMBDA r : PassesGate(SourceRecord(r)))

\* C9 as stated: the list a builder returns is exactly the records of the rows or items that
\* pass the two-check gate, one per passing row, in source order; nothing else drops a row.
C9_OutputIsGatePassingRows ==
    (Built /\ pc = "main") =>
        plans = [i \in DOMAIN Passing(Len(rows)) |-> Backfill(SourceRecord(Passing(Len(rows))[i]))]

\* the rows or items, among those the loop has been through, whose record was appended
Emitted ==
    SelectSeq(SubSeq(rows, 1, row_count),
              LAMBDA r : IF data_type = "csv" THEN NormalizeCsvRow(r).outcome = "emit"
                         ELSE NormalizeJsonItem(r).outcome = "emit")

\* the record emitted has both tiers, and holds its price_kwh_1000 in a tier the source lacks
TiersSet(source, record) ==
    /\ record.price_kwh_500.t # "none"
    /\ record.price_kwh_2000.t # "none"
    /\ source.price_kwh_500.t = "none" => record.price_kwh_500 = record.price_kwh_1000
    /\ source.price_kwh_2000.t = "none" => record.price_kwh_2000 = record.price_kwh_1000

AllTiersSet(sources, records) ==
    /\ Len(records) = Len(sources)
    /\ \A i \in DOMAIN records : TiersSet(SourceRecord(sources[i]), records[i])

\* C10: in every record a builder has emitted, during its loop and at its return, price_kwh_500
\* and price_kwh_2000 are set, and a tier the source row or item lacks holds the record's
\* price_kwh_1000.
C10_TiersBackfilled == (Built /\ pc \in {"parse", "main"}) => AllTiersSet(Emitted, plans)

\* a record was emitted for a row that has neither the 500 kWh nor the 2000 kWh price
C10_Witness ==
    /\ Built
    /\ pc = "main"
    /\ Len(plans) >= 1
    /\ SourceRecord(Emitted[1]).price_kwh_500.t = "none"
    /\ SourceRecord(Emitted[1]).price_kwh_2000.t = "none"
    /\ plans[1].price_kwh_500 = plans[1].price_kwh_1000
    /\ plans[1].price_kwh_2000 = plans[1].price_kwh_1000

\* ---------------------------------------------------------------------------------------------
\* tdu_area of the emitted records

\* the codes the table of normalize_tdu_name maps to
RecognizedCodes == {tdu_mapping[i].code : i \in DOMAIN tdu_mapping}

IsUpper(s) == Upper(s) = s

\* C11: in every record a builder has emitted, from the CSV or from the JSON document, tdu_area
\* is upper-cased and is one of the recognized codes or UNKNOWN.
C11_TduAreaRecognized ==
    Built => \A i \in DOMAIN plans :
                 /\ plans[i].tdu_area.t = "str"
                 /\ IsUpper(plans[i].tdu_area.v)
                 /\ plans[i].tdu_area.v \in RecognizedCodes \cup {<<"U","N","K","N","O","W","N">>}

\* ---------------------------------------------------------------------------------------------
\* normalize_tdu_name, the coercers and calculate_plan_preference called alone

Returned(fn) == pc = "returned" /\ call.fn = fn

\* the table entry at position i and the name overlap: one contains the other
Overlaps(i, name) == Contains(name, tdu_mapping[i].key) \/ Contains(tdu_mapping[i].key, name)

\* code is what the table gives for the upper-cased, trimmed name
TableGives(name, code) ==
    \/ \E i \in DOMAIN tdu_mapping : tdu_mapping[i].key = name /\ code = tdu_mapping[i].code
    \/ /\ \A i \in DOMAIN tdu_mapping : tdu_mapping[i].key # name
       /\ \E i \in DOMAIN tdu_mapping :
              /\ Overlaps(i, name)
              /\ \A j \in 1 .. (i - 1) : ~Overlaps(j, name)
              /\ code = tdu_mapping[i].code
    \/ /\ \A i \in DOMAIN tdu_mapping : tdu_mapping[i].key # name /\ ~Overlaps(i, name)
       /\ code = name

\* C12: for a non-empty raw value normalize_tdu_name upper-cases and trims it and returns the
\* code of the table key equal to it; failing that, the code of the first entry, in table order,
\* whose key contains the value or is contained in it; failing that, the upper-cased, trimmed
\* value itself.
C12_TduExactThenPartialThenSelf ==
    (Returned("normalize_tdu_name") /\ call.arg.v # <<>>) =>
        TableGives(Strip(Upper(call.arg.v)), result.v)

\* "Texas" is no key, and is contained in the keys of two utilities: the first in table order wins
C12_Witness ==
    /\ Returned("normalize_tdu_name")
    /\ call.arg.v = <<"T","e","x","a","s">>
    /\ Contains(<<"T","E","X","A","S","-","N","E","W"," ","M","E","X","I","C","O"," ","P","O","W","E","R">>, Upper(call.arg.v))
    /\ result.v = <<"A","E","P","_","C","E","N","T","R","A","L">>

\* C13: normalize_tdu_name returns UNKNOWN for an empty or whitespace-only raw value, never a
\* recognized code.
C13_BlankIsUnknown ==
    (Returned("normalize_tdu_name") /\ Strip(call.arg.v) = <<>>) => result.v = <<"U","N","K","N","O","W","N">>

\* the number parse_price parses from a text, after stripping "$", "," and "%"
PriceNumber(cleaned) == IF cleaned = <<>> THEN Raise("ValueError") ELSE FloatOfStr(cleaned)

\* price is 100 times a number below 1.0, the number itself from 1.0 up, None for no number
PriceAsStated(num, price) ==
    CASE num.t = "raise" -> price = PyNone
      [] num.t = "float" /\ num.v < Unit -> price = PyFloat(100 * num.v)
      [] num.t = "float" /\ num.v >= Unit -> price = num
      [] num.t = "ninf" -> price = PyNegInf
      [] num.t = "inf" -> price = PyInf
      [] OTHER -> price = num

\* C14: parse_price of a text, after stripping "$", "," and "%", returns 100 times the parsed
\* number when it is below 1.0 and the number unchanged when it is 1.0 or more (exactly 1.0 is not
\* converted); an empty or non-numeric text gives None.
C14_PriceDollarsToCents ==
    (Returned("parse_price") /\ call.arg.t = "str") =>
        PriceAsStated(PriceNumber(RemoveChars(Strip(call.arg.v), {"$", ",", "%"})), result)

\* "0.0950" came back as 9.5
C14_Witness ==
    /\ Returned("parse_price")
    /\ call.arg = PyStr(<<"0",".","0","9","5","0">>)
    /\ result = PyFloat(9 * Unit + Unit \div 2)

\* C15: parse_price, parse_float and parse_int return a number or None for every input text,
\* and raise nothing.
C15_CoercersNeverRaise ==
    (call.fn \in {"parse_price", "parse_float", "parse_int"} /\ call.arg.t = "str") =>
        /\ pc # "raised"
        /\ result.t # "raise"

LanguageOf(plan) == IF plan.language.t = "str" THEN Lower(plan.language.v) ELSE <<>>

EnglishShort(plan) == LanguageOf(plan) = <<"e","n","g","l","i","s","h">> /\ Len(plan.plan_name.v) = 10

SpanishLong(plan) == LanguageOf(plan) \in {<<"s","p","a","n","i","s","h">>, <<"e","s","p","a","n~","o","l">>} /\ Len(plan.plan_name.v) = 60

\* C20: a candidate marked English with a name of 10 characters scores strictly above every
\* candidate marked Spanish with a name of 60 characters, whatever their texts are.
C20_EnglishShortAboveSpanishLong ==
    (Returned("calculate_plan_preference") /\ EnglishShort(call.arg)) =>
        \A plan \in Candidates : SpanishLong(plan) => result.v > calculate_plan_preference(plan)

\* the lowest English score, 45 for a name of ten special characters and terms with every Spanish
\* mark, was returned, and a Spanish candidate reaches 35
C20_Witness ==
    /\ Returned("calculate_plan_preference")
    /\ EnglishShort(call.arg)
    /\ call.arg.plan_name.v = Repeat("!", 10)
    /\ result.v = 45
    /\ \E plan \in Candidates : SpanishLong(plan) /\ calculate_plan_preference(plan) = 35

\* ---------------------------------------------------------------------------------------------
\* The builders: failures of a row, of the document, and the shape of the records

\* C16: no row or item aborts the batch: from its loop a builder goes on with the next row or
\* returns its list, whatever the row or item holds; no exception leaves it.
C16_NoRowAbortsBatch == [][pc = "parse" => pc' \in {"parse", "main"}]_vars

\* the object holds an array under plans, data or results
ExposesArray(object) ==
    \E key \in {"plans", "data", "results"} \cap DOMAIN object : object[key].t = "list"

\* the document fails as a whole: a CSV text without columns, a text that is not JSON, or JSON
\* whose top level is neither an array nor an object holding one
StructuralFailure ==
    \/ data_type = "csv" /\ call.arg.header = "absent"
    \/ /\ data_type = "json"
       /\ \/ call.arg.t \notin {"list", "dict"}
          \/ call.arg.t = "dict" /\ ~ExposesArray(call.arg.v)

\* C17: a document that fails as a whole is answered with the empty list, not an exception:
\* the builder returns [] to main, which then exits.
C17_StructuralFailureReturnsEmpty ==
    (Built /\ StructuralFailure) => (pc \in {"open", "main", "exit"} /\ plans = <<>>)

\* C18: when parse_csv_to_plans returns, row_count is the number of emitted records plus
\* error_count: every skipped row is counted.
C18_SkippedRowsCounted ==
    (data_type = "csv" /\ pc = "main") => row_count = Len(plans) + error_count

CanonicalFields ==
    {"plan_id", "plan_name", "rep_name", "tdu_area", "rate_type", "language", "price_kwh_500",
     "price_kwh_1000", "price_kwh_2000", "term_months", "early_termination_fee",
     "base_charge_monthly", "renewable_pct", "is_prepaid", "is_tou", "special_terms",
     "promotion_details", "fees_credits", "min_usage_fees", "efl_url", "enrollment_url",
     "terms_url"}

\* C19: every record a builder has emitted, from the CSV or from the JSON document, carries
\* exactly the 22 canonical field names.
C19_RecordsCarryCanonicalFields ==
    Built => \A i \in DOMAIN plans : DOMAIN plans[i] = CanonicalFields

\* ---------------------------------------------------------------------------------------------
\* deduplicate_plans as a selection

\* every record of the list out is a record of the list in
SelectedFrom(out, in) == \A i \in DOMAIN out : \E j \in DOMAIN in : out[i] = in[j]

\* C21: deduplicate_plans only selects: no step of it changes the input list or a plan in it, and
\* every record of the list it returns is one of the input records, unmodified.
C21_DedupeOnlySelects ==
    [][pc = "dedupe" =>
          /\ plans' = plans
          /\ pc' = "done" => SelectedFrom(unique_plans', plans)]_vars

\* three plans came in, two of them were returned as they are
C21_Witness ==
    /\ pc = "done"
    /\ Len(plans) = 3
    /\ Len(unique_plans) = 2
    /\ SelectedFrom(unique_plans, plans)

\* the fingerprints of the records of a list, in its order
FingerprintsOf(list) == [i \in DOMAIN list |-> create_plan_fingerprint(list[i])] \o <<>>

\* no two positions of the list fps hold the same fingerprint
PairwiseDistinct(fps) == \A i, j \in DOMAIN fps : i # j => fps[i] # fps[j]

OnePerFingerprint(outs, ins) ==
    /\ PairwiseDistinct(outs)
    /\ Range(outs) = Range(ins)
    /\ Len(outs) = Cardinality(Range(ins))

\* C29: the list deduplicate_plans returns holds exactly one record per distinct fingerprint of
\* the input: the fingerprints of the returned records are pairwise distinct, they are the
\* fingerprints of the input, and the length of the list is the number of distinct fingerprints
\* of the input.
C29_OneRecordPerFingerprint ==
    pc = "done" => OnePerFingerprint(FingerprintsOf(unique_plans), FingerprintsOf(plans))

\* three plans of two fingerprints, the first and the third alike, gave two records
C29_Witness ==
    /\ pc = "done"
    /\ Len(plans) = 3
    /\ Fingerprint(1) = Fingerprint(3)
    /\ Fingerprint(1) # Fingerprint(2)
    /\ Len(unique_plans) = 2

RECURSIVE LoopInOrder(_, _, _)
\* the map the loop of deduplicate_plans builds from map when it meets the input plans in the
\* order given; fps holds the fingerprints of the input plans
LoopInOrder(map, order, fps) ==
    IF order = <<>> THEN map
    ELSE LoopInOrder(DedupeFold(map, fps[Head(order)], plans[Head(order)]), Tail(order), fps)

\* the preference scores of the records of a list, in its order
ScoresOf(list) == [i \in DOMAIN list |-> calculate_plan_preference(list[i])] \o <<>>

\* the plan p of score s is the only record of that score among the input plans at positions G
OnlyBest(p, s, G, scores) == \A m \in G : scores[m] = s => plans[m] = p

\* s is the highest score of the input plans at the positions G
BestScore(s, G, scores) == \A m \in G : scores[m] <= s

\* every record of the list out, of fingerprints outs and scores kept, has the highest score of
\* its group in the input of fingerprints fps and scores scores
KeepsBest(outs, kept, fps, scores) ==
    \A i \in DOMAIN outs : BestScore(kept[i], Group(outs[i], fps), scores)

\* the list out and the map other hold the same choice: the same fingerprints, for each of them
\* records of the same score, and the same record where only one of the group has that score
SameChoice(out, outs, kept, other, fps, scores) ==
    /\ {other[j].key : j \in DOMAIN other} = Range(outs)
    /\ \A i \in DOMAIN out : \A j \in DOMAIN other :
          outs[i] = other[j].key =>
              /\ calculate_plan_preference(other[j].value) = kept[i]
              /\ OnlyBest(out[i], kept[i], Group(outs[i], fps), scores) => other[j].value = out[i]

\* whatever the order of the input, the choice is that of the list out
SameChoiceInEveryOrder(out, outs, kept, fps, scores) ==
    /\ KeepsBest(outs, kept, fps, scores)
    /\ \A order \in KeyOrders(DOMAIN plans) :
          SameChoice(out, outs, kept, LoopInOrder(<<>>, order, fps), fps, scores)

\* C30: the choice of deduplicate_plans depends on the order of the input only on exact ties:
\* run on any permutation of the input, it returns the same set of fingerprints, for each
\* fingerprint a record of the same score, the highest of its group, and the same record when
\* only one record of the group has that score.
C30_ChoiceIndependentOfOrder ==
    pc = "done" =>
        SameChoiceInEveryOrder(unique_plans, FingerprintsOf(unique_plans), ScoresOf(unique_plans),
                               FingerprintsOf(plans), ScoresOf(plans))

\* a group whose best record came last: it is returned, and a run on the reversed input, where
\* it comes first, returns it too
C30_Witness ==
    /\ pc = "done"
    /\ Len(plans) = 3
    /\ Fingerprint(1) = Fingerprint(3)
    /\ Score(3) > Score(1)
    /\ unique_plans[1] = plans[3]
    /\ deduplicate_plans(<<plans[3], plans[2], plans[1]>>).v[1] = plans[3]

\* ---------------------------------------------------------------------------------------------
\* The values of the emitted records

\* x is a finite number of at least 0
NonNegative(x) == x.t \in {"int", "float"} /\ x.v >= 0

\* the numeric ranges of the data model
InRanges(plan) ==
    /\ NonNegative(plan.price_kwh_500)
    /\ NonNegative(plan.price_kwh_1000)
    /\ NonNegative(plan.price_kwh_2000)
    /\ plan.term_months.t = "int" /\ plan.term_months.v >= 0
    /\ NonNegative(plan.base_charge_monthly)
    /\ plan.early_termination_fee.t = "none" \/ NonNegative(plan.early_termination_fee)
    /\ plan.renewable_pct.t = "int" /\ plan.renewable_pct.v \in 0 .. 100

\* C22: every record a builder has emitted satisfies the numeric ranges of the data model:
\* prices, term and base charge at least 0, early termination fee absent or at least 0,
\* renewable percentage an integer from 0 to 100.
C22_RecordsInRanges == Built => \A i \in DOMAIN plans : InRanges(plans[i])

\* ---------------------------------------------------------------------------------------------
\* validate_zip_code_range, calculate_plan_preference and get_val called alone

\* C23: validate_zip_code_range(min_zip, max_zip) returns True if and only if
\* 10000 <= min_zip <= max_zip <= 99999.
C23_ZipRangeValidIff ==
    Returned("validate_zip_code_range") =>
        (result = PyBool(TRUE)) <=>
            (10000 <= call.arg.min_zip /\ call.arg.min_zip <= call.arg.max_zip
                /\ call.arg.max_zip <= 99999)

\* a range of one ZIP code was found valid
C23_Witness ==
    /\ Returned("validate_zip_code_range")
    /\ call.arg.min_zip = 77001
    /\ call.arg.max_zip = 77001
    /\ result = PyBool(TRUE)

\* the text the marks are looked for in: name and terms joined by a space, in lower case
CombinedText(plan) == Lower(plan.plan_name.v \o <<" ">> \o plan.special_terms.v)

LanguagePoints(language) ==
    IF language = <<"e","n","g","l","i","s","h">> THEN 50
    ELSE IF language \in {<<"s","p","a","n","i","s","h">>, <<"e","s","p","a","n~","o","l">>} THEN -50
    ELSE 0

\* 20 for n-tilde, 10 for each accented vowel that occurs, 15 for the ending "ción"
MarkPoints(text) ==
    (IF "n~" \in Range(text) THEN 20 ELSE 0)
        + 10 * Cardinality({"a'", "e'", "i'", "o'", "u'"} \cap Range(text))
        + (IF \E i \in DOMAIN text : i + 3 <= Len(text) /\ SubSeq(text, i, i + 3) = <<"c","i","o'","n">>
           THEN 15 ELSE 0)

LengthPoints(name) ==
    IF Len(name) > 50 THEN 15 ELSE IF Len(name) > 30 THEN 10 ELSE IF Len(name) > 20 THEN 5 ELSE 0

\* 2 for every character of name that is not alphanumeric, space or hyphen
CharacterPoints(name) == 2 * Cardinality({i \in DOMAIN name : ~IsAlnum(name[i]) /\ name[i] \notin {" ", "-"}})

\* the text as the claim writes it: the name followed by the terms, in the case given
TextAsWritten(plan) == plan.plan_name.v \o plan.special_terms.v

\* C24 as stated: the marks are looked for in plan_name + special_terms.
C24_MarksInTextAsWritten ==
    Returned("calculate_plan_preference") =>
        result = PyInt(100 + LanguagePoints(LanguageOf(call.arg))
                           - MarkPoints(TextAsWritten(call.arg))
                           - LengthPoints(call.arg.plan_name.v)
                           - CharacterPoints(call.arg.plan_name.v))

\* C24 (amended): calculate_plan_preference returns exactly 100, plus 50 for English and minus 50
\* for Spanish or español, minus 20 for n-tilde in the lower-cased text of name, a space and
\* terms, minus 10 for each of the five accented vowels that occurs there (once per letter),
\* minus 15 for "ción" there, minus one length penalty on the name (15 over 50 characters, else
\* 10 over 30, else 5 over 20), minus 2 for every name character that is not alphanumeric,
\* space or hyphen.
C24_PreferenceScoreExact ==
    Returned("calculate_plan_preference") =>
        result = PyInt(100 + LanguagePoints(LanguageOf(call.arg))
                           - MarkPoints(CombinedText(call.arg))
                           - LengthPoints(call.arg.plan_name.v)
                           - CharacterPoints(call.arg.plan_name.v))

\* a Spanish candidate with 35 special characters and terms where one accented vowel occurs twice
C24_Witness ==
    /\ Returned("calculate_plan_preference")
    /\ call.arg.language = PyStr(<<"E","s","p","a","n~","o","l">>)
    /\ call.arg.plan_name = PyStr(Repeat("!", 35))
    /\ call.arg.special_terms = PyStr(<<"S","e","n~","o","r",","," ","m","a'","s"," ","y"," ","m","a'","s">>)
    /\ result = PyInt(100 - 50 - 20 - 10 - 10 - 70)

\* the row holds a non-empty value under name
HasValue(row, name) == name \in DOMAIN row /\ row[name] # <<>>

Bracketed(key) == "[" \o key \o "]"

\* no alias before position i yields a value, plain or bracketed
NoneBefore(row, keys, i) ==
    \A j \in 1 .. (i - 1) : ~HasValue(row, keys[j]) /\ ~HasValue(row, Bracketed(keys[j]))

\* value is what the aliases keys find in row
FoundByAliases(row, keys, value) ==
    \/ \E i \in DOMAIN keys :
          /\ NoneBefore(row, keys, i)
          /\ \/ HasValue(row, keys[i]) /\ value = row[keys[i]]
             \/ /\ ~HasValue(row, keys[i])
                /\ HasValue(row, Bracketed(keys[i]))
                /\ value = row[Bracketed(keys[i])]
    \/ /\ NoneBefore(row, keys, Len(keys) + 1)
       /\ value = <<>>

\* C25: get_val tries the aliases in the given order and, for each alias, the plain name and then
\* the name in brackets before the next alias; it returns the first non-empty value found, and
\* the empty string when there is none.
C25_GetValFirstAliasWins ==
    Returned("get_val") => FoundByAliases(call.arg.row, call.arg.keys, result.v)

\* the bracketed column of the first alias won over the plain column of the second
C25_Witness ==
    /\ Returned("get_val")
    /\ call.arg.keys = <<"kwh500", "Price500">>
    /\ ~HasValue(call.arg.row, "kwh500")
    /\ HasValue(call.arg.row, "[kwh500]")
    /\ HasValue(call.arg.row, "Price500")
    /\ result.v = call.arg.row["[kwh500]"]

\* ---------------------------------------------------------------------------------------------
\* The flags and the low and high tiers of the emitted records

\* the value the source row or item has for the two flags
SourcePrepaid(r) ==
    IF data_type = "csv" THEN PyStr(get_val(r, <<"PrePaid", "Prepaid", "is_prepaid">>))
    ELSE Get2(r.v, "isPrepaid", "prepaid", PyBool(FALSE))

SourceTou(r) ==
    IF data_type = "csv"
    THEN PyStr(get_val(r, <<"TimeOfUse", "Time Of Use", "Time of Use", "is_tou">>))
    ELSE Get2(r.v, "isTou", "timeOfUse", PyBool(FALSE))

\* the source value, upper-cased and trimmed, is one of TRUE, YES, 1
FlagIsSet(raw) ==
    CASE raw.t = "str" -> Strip(Upper(raw.v)) \in FlagValues
      [] raw.t = "bool" -> raw.v
      [] raw.t = "int" -> raw.v = 1
      [] OTHER -> FALSE

FlagsCoerced(source, record) ==
    /\ record.is_prepaid = PyBool(FlagIsSet(SourcePrepaid(source)))
    /\ record.is_tou = PyBool(FlagIsSet(SourceTou(source)))

\* C26 as stated: is_prepaid and is_tou of an emitted record are booleans, true exactly when the
\* source value, upper-cased and trimmed of surrounding whitespace, is one of TRUE, YES, 1.
C26_FlagsTrimmedAndCoerced ==
    (Built /\ pc \in {"parse", "main"}) =>
        /\ Len(plans) = Len(Emitted)
        /\ \A i \in DOMAIN plans : FlagsCoerced(Emitted[i], plans[i])

\* a tier the source has as a number is carried as it is
TierKept(source, record) ==
    /\ source.price_kwh_500.t \in {"int", "float"} => record.price_kwh_500 = source.price_kwh_500
    /\ source.price_kwh_2000.t \in {"int", "float"} => record.price_kwh_2000 = source.price_kwh_2000

\* C27 as stated: when the source price_kwh_500 or price_kwh_2000 coerces to a number, 0
\* included, the emitted record carries that number; only an absent tier is set to
\* price_kwh_1000.
C27_BackfillOnlyAbsentTier ==
    (Built /\ pc \in {"parse", "main"}) =>
        /\ Len(plans) = Len(Emitted)
        /\ \A i \in DOMAIN plans : TierKept(SourceRecord(Emitted[i]), plans[i])

\* ---------------------------------------------------------------------------------------------
\* retry_with_backoff

RetryEnded == pc \in {"returned", "raised"}

Failed(outcome) == outcome.t = "raise"

\* the calls of func before the last one all failed with a request exception
EarlierCallsFailed == \A i \in 1 .. (Len(calls) - 1) : calls[i] \in RequestExceptions

\* the i-th sleep is BASE_DELAY * 2^(i-1) seconds plus at most one second
DelaysBackOff ==
    /\ \A i \in DOMAIN delays :
          /\ delays[i] >= BASE_DELAY * (2 ^ (i - 1)) * Unit
          /\ delays[i] <= BASE_DELAY * (2 ^ (i - 1)) * Unit + Unit
    /\ \A i \in DOMAIN delays : i > 1 => delays[i] > delays[i - 1]

\* one sleep after each failed call but the MAX_RETRIES-th, made before the next call
SleptBetweenCalls ==
    LET failures == Cardinality({i \in DOMAIN calls : calls[i] \in RequestExceptions})
    IN  Len(delays) = IF failures < MAX_RETRIES THEN failures ELSE MAX_RETRIES - 1

RetryAsStated ==
    /\ Len(calls) <= MAX_RETRIES
    /\ EarlierCallsFailed
    /\ DelaysBackOff
    /\ SleptBetweenCalls
    /\ pc = "returned" => ~Failed(calls[Len(calls)]) /\ result = calls[Len(calls)]
    /\ (pc = "raised" /\ Len(calls) = MAX_RETRIES /\ calls[MAX_RETRIES] \in RequestExceptions) =>
          /\ result = calls[MAX_RETRIES]
          /\ Len(delays) = MAX_RETRIES - 1

\* C28: retry_with_backoff always terminates after at most MAX_RETRIES calls of func; it returns
\* the result of the first call that succeeds and calls no more; after a call that fails with a
\* request exception and is not the last attempt it sleeps BASE_DELAY * 2^attempt seconds plus a
\* jitter of 0 to 1 second before the next call, so the delays strictly increase; after the
\* MAX_RETRIES-th failure it does not sleep and raises the exception of that failure.
C28_RetryTerminatesBackingOff ==
    /\ []RetryAsStated
    /\ [][RetryEnded => calls' = calls /\ delays' = delays]_vars
    /\ <>RetryEnded

\* four calls failed, three sleeps of at least 2, 4 and 8 seconds were made, and the exception
\* of the fourth failure was raised
C28_Witness ==
    /\ pc = "raised"
    /\ Len(calls) = MAX_RETRIES
    /\ calls[1] = Raise("ConnectionError")
    /\ calls[MAX_RETRIES] = Raise("Timeout")
    /\ result = Raise("Timeout")
    /\ delays = <<2 * Unit, 4 * Unit + Unit \div 2, 8 * Unit + Unit>>

=============================================================================
